---- MODULE Spec2Model ----
(***************************************************************************)
(* Model of the tactical-task pipeline of opord-canvas:                    *)
(*   - the Embedding Generator   (scripts/extract_tactical_tasks.py)       *)
(*   - the Extraction Engine and the ingestion run (same file, main)       *)
(*   - the Knowledge Store upsert (save_task_to_db) and exact lookup       *)
(*   - the Recognition Engine    (services/tactical_analysis_service.py)   *)
(*                                                                         *)
(* Python values are modelled with a uniform shape: a JSON object is a     *)
(* record whose absent keys hold MISSING, a JSON number where a string is  *)
(* expected is NONSTR, None for image_path is the empty tuple.  Text of a  *)
(* generative response is a sequence of tokens (whitespace, fence, the     *)
(* json tag, an array payload, a non-array payload, garbage).              *)
(***************************************************************************)
EXTENDS Integers, Sequences, FiniteSets, TLC

VARIABLES
    store,          \* Knowledge Store: the rows of table tactical_tasks
    nextId,         \* next primary key the database hands out
    pc,             \* position of main(): "loop", "process", "save", "done"
    pageIdx,        \* current_pdf_page_index
    majorError,     \* main's outer except clause ran (line 286)
    pageImages,     \* image assets of the page being processed
    gemini_tasks,   \* process_page: candidates still to be processed
    processed,      \* process_page: processed_tasks_for_db
    tasks_on_page,  \* main: records still to be validated and saved
    rawTasks,       \* the parsed candidate list of the page being processed
    savedLog,       \* calls of save_task_to_db made for the page: payload, commit outcome
    embLog,         \* calls of generate_embedding made for the page: candidate, outcome
    pagesPassed,    \* number of pages passed to process_page so far
    embCalls,       \* invocations of generate_embedding
    capCalls,       \* invocations of genai.embed_content
    embInput,       \* last outcome of the embedding capability
    embResult,      \* last value returned by generate_embedding
    recStore,       \* Knowledge Store seen by the Recognition Engine
    recInput,       \* last input of identify_and_retrieve_tactical_tasks
    recResult,      \* its outcome: raised or the list returned
    recLookups,     \* names it looked up in the Knowledge Store
    extInput,       \* last input of a stand-alone extract_tasks_with_gemini call
    extResult,      \* its outcome
    lastOps,        \* the last two writes to the Knowledge Store: operation, payload, outcome
    searchCall,     \* last input of search_similar_tasks
    searchResult,   \* its outcome: raised or the records returned
    opord,          \* the document (table opords): exists, content, analysis_results
    scheduled,      \* background runs added by the endpoints and not yet started
    orch,           \* the run of run_tactical_analysis_and_store_results in progress
    runLog,         \* what the last finished run did
    docLog,         \* what the last call of a document endpoint did
    apiCall,        \* last request to /analysis/tasks or /ai/enhance_text
    apiResult,      \* its answer: status code and body
    sess,           \* database sessions of concurrent save_task_to_db calls
    lookup,         \* a concurrent get_tactical_task_by_name: name and result
    store0          \* the Knowledge Store before the concurrent calls

vars == <<store, nextId, pc, pageIdx, majorError, pageImages, gemini_tasks,
          processed, tasks_on_page, rawTasks, savedLog, embLog, pagesPassed,
          embCalls, capCalls, embInput, embResult,
          recStore, recInput, recResult, recLookups, extInput, extResult,
          lastOps, searchCall, searchResult,
          opord, scheduled, orch, runLog, docLog, apiCall, apiResult,
          sess, lookup, store0>>

ingestVars == <<store, nextId, pc, pageIdx, majorError, pageImages, gemini_tasks,
                processed, tasks_on_page, rawTasks, savedLog, embLog, pagesPassed>>
embedVars  == <<embCalls, capCalls, embInput, embResult>>
recogVars  == <<recStore, recInput, recResult, recLookups, extInput, extResult>>
pageVars   == <<pc, pageIdx, majorError, pageImages, gemini_tasks, processed,
                tasks_on_page, rawTasks, savedLog, embLog, pagesPassed>>
adminVars  == <<lastOps, searchCall, searchResult>>
docVars    == <<opord, scheduled, orch, runLog, docLog>>
apiVars    == <<apiCall, apiResult>>
concVars   == <<sess, lookup, store0>>

----------------------------------------------------------------------------
(* Bounds of the model *)

MaxPages == 2       \* pages of the document inside the ingested range
MaxCands == 2       \* candidates in one generative response
MaxDelta == 2       \* native embedding lengths within MaxDelta of the target
MaxSmall == 2       \* native embedding lengths 0..MaxSmall
MaxOps == 2         \* writes to the Knowledge Store followed from a given store
MaxLimit == 3       \* limit of search_similar_tasks: -1..MaxLimit
MaxRequests == 3    \* requests to the document endpoints in one behaviour
MaxCalls == 3       \* generate_embedding calls followed in the embedding model

(* Program constants *)

target_dimension == 1536
start_pdf_page_index == 410
end_pdf_page_index == 422

MISSING == "<missing>"      \* the key is not in the JSON object
NONSTR  == "<number>"       \* a JSON number (truthy, not a str)
SOURCE_REFERENCE == "FM 3-90"

----------------------------------------------------------------------------
(* Generic helpers *)

Range(s) == {s[i] : i \in 1..Len(s)}

SeqsUpTo(S, n) == UNION {[1..k -> S] : k \in 0..n}

Zeros(n) == [i \in 1..n |-> 0]

\* str.upper() on the names of the model
Upper(s) ==
    CASE s = "seize"  -> "SEIZE"
      [] s = "Seize"  -> "SEIZE"
      [] s = "occupy" -> "OCCUPY"
      [] OTHER        -> s

\* Python truthiness of a value fetched with dict.get: an absent key gives None
Truthy(v) == v # MISSING /\ v # ""

IsStr(v) == v # MISSING /\ v # NONSTR

----------------------------------------------------------------------------
(* Embedding Generator *)

\* the vector the embedding capability returns: n non-zero components
NativeVec(n, seed) == [i \in 1..n |-> ((i + seed) % 3) + 1]

NativeLens ==
    (0..MaxSmall) \cup ((target_dimension - MaxDelta)..(target_dimension + MaxDelta))

Seeds == {0, 1, 2}

EmbedOutcomes ==
    {[ok |-> FALSE, n |-> 0, seed |-> 0]}
    \cup [ok : {TRUE}, n : NativeLens, seed : Seeds]

GenerateEmbeddingTruncateOnly(out) ==
    IF ~out.ok THEN Zeros(target_dimension)
    ELSE LET embedding_list == NativeVec(out.n, out.seed)
         IN  IF out.n > target_dimension
             THEN SubSeq(embedding_list, 1, target_dimension)
             ELSE embedding_list

\* generate_embedding: out is what genai.embed_content did (ok = FALSE: it raised)
generate_embedding(out) ==
    IF ~out.ok THEN Zeros(target_dimension)
    ELSE LET embedding_list == NativeVec(out.n, out.seed)
             current_dimension == Len(embedding_list)
         IN  IF current_dimension # target_dimension
             THEN IF current_dimension > target_dimension
                  THEN SubSeq(embedding_list, 1, target_dimension)
                  ELSE embedding_list \o Zeros(target_dimension - current_dimension)
             ELSE embedding_list

\* calls of genai.embed_content one generate_embedding makes (lines 48-52:
\* one, outside any loop)
EmbedAttempts(out) == 1

----------------------------------------------------------------------------
(* Text of a generative response *)

WS      == "ws"           \* a run of whitespace
FENCE   == "<fence>"      \* three backticks
TAG     == "json"
ARR     == "<array>"      \* the serialisation of the response's candidate list
OBJ     == "<object>"     \* a JSON value that is not a list
GARBAGE == "not json"

\* the slice text[k:], k counted in tokens
SliceFrom(t, k) == SubSeq(t, k + 1, Len(t))

\* str.strip(): leading and trailing whitespace removed
Strip(t) ==
    LET nonWs == {i \in 1..Len(t) : t[i] # WS}
    IN  IF nonWs = {} THEN <<>>
        ELSE LET first == CHOOSE i \in nonWs : \A j \in nonWs : i <= j
                 last  == CHOOSE i \in nonWs : \A j \in nonWs : i >= j
             IN  SubSeq(t, first, last)

StartsWith(t, prefix) ==
    Len(t) >= Len(prefix) /\ SubSeq(t, 1, Len(prefix)) = prefix

EndsWith(t, suffix) ==
    Len(t) >= Len(suffix) /\ SubSeq(t, Len(t) - Len(suffix) + 1, Len(t)) = suffix

CleanWithoutClosingFence(t) ==
    LET stripped == Strip(t)
    IN  IF StartsWith(stripped, <<FENCE, TAG>>) THEN SliceFrom(stripped, 2)
        ELSE IF StartsWith(stripped, <<FENCE>>) THEN SliceFrom(stripped, 1)
        ELSE stripped

\* response.text.strip() and the three fence tests (recognition 89-95, extraction 108-114)
CleanResponse(t) ==
    LET stripped == Strip(t)
        opened ==
            IF StartsWith(stripped, <<FENCE, TAG>>) THEN SliceFrom(stripped, 2)
            ELSE IF StartsWith(stripped, <<FENCE>>) THEN SliceFrom(stripped, 1)
            ELSE stripped
    IN  IF EndsWith(opened, <<FENCE>>) THEN SubSeq(opened, 1, Len(opened) - 1)
        ELSE opened

\* json.loads: surrounding whitespace is accepted, anything else around the
\* value is a JSONDecodeError
JsonLoads(t) ==
    LET s == Strip(t)
    IN  IF s = <<ARR>> THEN "list"
        ELSE IF s = <<OBJ>> THEN "nonlist"
        ELSE "error"

TextShapes ==
    { <<ARR>>,
      <<FENCE, TAG, WS, ARR, WS, FENCE>>,
      <<WS, FENCE, WS, ARR, FENCE, WS>>,
      <<GARBAGE>>,
      <<OBJ>>,
      <<FENCE, TAG, WS, OBJ, WS, FENCE>>,
      <<>>,
      <<TAG, ARR>> }

\* What the generative capability does on one call:
\*   call: it returns ("ok") or raises an exception of the given class
\*   text: response.text is a string ("text"), is None ("none"), or reading
\*         it raises ValueError ("blocked")
GenCalls == {"ok", "raise_json", "raise_attr", "raise_other"}

FailedResponses ==
    [call : GenCalls \ {"ok"}, text : {"text"}, tokens : {<<>>}]
    \cup [call : {"ok"}, text : {"none", "blocked"}, tokens : {<<>>}]

TextResponses == [call : {"ok"}, text : {"text"}, tokens : TextShapes]

ParsedKind(resp) ==
    IF resp.call = "ok" /\ resp.text = "text"
    THEN JsonLoads(CleanResponse(resp.tokens))
    ELSE "error"

----------------------------------------------------------------------------
(* Extraction Engine *)

\* A candidate of the extraction response
Cand(isDict, name, definition, hasFigs, figs, page) ==
    [isDict |-> isDict, name |-> name, definition |-> definition,
     hasFigs |-> hasFigs, figure_references |-> figs,
     document_page_number |-> page]

ExtractionCandidates ==
    { Cand(TRUE, "seize", "d1", TRUE, <<>>, "B-11"),
      Cand(TRUE, "SEIZE", "d2", TRUE, <<"Figure B-1">>, "B-12"),
      Cand(TRUE, "OCCUPY", "d1", TRUE, <<>>, "B-11"),
      Cand(TRUE, "OCCUPY", "d2", FALSE, <<>>, "B-12"),    \* no figure_references key
      Cand(TRUE, NONSTR, "d1", TRUE, <<>>, "B-11"),       \* "name": 5
      Cand(TRUE, MISSING, "d1", TRUE, <<>>, "B-11"),      \* no name key
      Cand(TRUE, "SEIZE", "", TRUE, <<>>, "B-11"),        \* "definition": ""
      Cand(TRUE, "SEIZE", "d1", TRUE, <<>>, MISSING),     \* no document_page_number key
      Cand(TRUE, "OCCUPY", "d2", TRUE, <<>>, NONSTR),     \* "document_page_number": 11
      Cand(FALSE, MISSING, MISSING, FALSE, <<>>, MISSING) \* an element that is no object
    }

\* line 125: isinstance(task, dict) and all four keys are in it
HasAllKeys(task) ==
    /\ task.isDict
    /\ task.name # MISSING
    /\ task.definition # MISSING
    /\ task.hasFigs
    /\ task.document_page_number # MISSING

RECURSIVE SelectSeq2(_, _)
SelectSeq2(s, keep) ==      \* SelectSeq with a set of kept values
    IF s = <<>> THEN <<>>
    ELSE IF Head(s) \in keep THEN <<Head(s)>> \o SelectSeq2(Tail(s), keep)
    ELSE SelectSeq2(Tail(s), keep)

ValidTasks(extracted_tasks) ==
    SelectSeq2(extracted_tasks, {t \in Range(extracted_tasks) : HasAllKeys(t)})

\* extract_tasks_with_gemini, lines 104-136.  The handler of JSONDecodeError
\* (line 132) reads response.text: when generate_content itself raised that
\* class, response is unbound there and the handler raises UnboundLocalError.
extract_tasks_with_gemini(resp, payload) ==
    IF resp.call = "raise_json" THEN [raised |-> TRUE, value |-> <<>>]
    ELSE IF resp.call # "ok" THEN [raised |-> FALSE, value |-> <<>>]
    ELSE IF resp.text # "text" THEN [raised |-> FALSE, value |-> <<>>]
    ELSE LET kind == JsonLoads(CleanResponse(resp.tokens))
         IN  IF kind = "error" THEN [raised |-> FALSE, value |-> <<>>]
             ELSE IF kind = "nonlist" THEN [raised |-> FALSE, value |-> <<>>]
             ELSE [raised |-> FALSE, value |-> ValidTasks(payload)]

\* Image assets of a page: get_images raises, or a list of images each of
\* which extract_image can (TRUE) or cannot (FALSE) extract
PageImageChoices ==
    { [fails |-> FALSE, images |-> <<>>],
      [fails |-> FALSE, images |-> <<FALSE, TRUE>>],
      [fails |-> TRUE,  images |-> <<>>] }

\* extract_and_save_image, lines 138-166: the path of the first extractable
\* image (figure reference, page.number, image index), None otherwise
extract_and_save_image(images, figure_ref, pageNumber) ==
    IF images.fails THEN <<>>
    ELSE LET ok == {i \in 1..Len(images.images) : images.images[i]}
         IN  IF ok = {} THEN <<>>
             ELSE <<figure_ref, pageNumber,
                    (CHOOSE i \in ok : \A j \in ok : i <= j) - 1>>

\* process_page lines 190-192: the candidate is skipped
Skipped(task_info) ==
    \/ ~Truthy(task_info.name)
    \/ ~Truthy(task_info.definition)
    \/ ~Truthy(task_info.document_page_number)

\* process_page line 204: name.upper() raises AttributeError on a non-string
UpperRaises(task_info) == ~IsStr(task_info.name)

ProcessedTaskNoUpper(task_info, embedding, images, pageNumber) ==
    [name |-> task_info.name,
     definition |-> task_info.definition,
     page_number |-> task_info.document_page_number,
     source_reference |-> SOURCE_REFERENCE,
     related_figures |-> task_info.figure_references,
     image_path |->
        IF task_info.figure_references # <<>>
        THEN extract_and_save_image(images, task_info.figure_references[1], pageNumber)
        ELSE <<>>,
     embedding |-> embedding]

\* process_page lines 196-211: the record built for a surviving candidate
ProcessedTask(task_info, embedding, images, pageNumber) ==
    [name |-> Upper(task_info.name),
     definition |-> task_info.definition,
     page_number |-> task_info.document_page_number,
     source_reference |-> SOURCE_REFERENCE,
     related_figures |-> task_info.figure_references,
     image_path |->
        IF task_info.figure_references # <<>>
        THEN extract_and_save_image(images, task_info.figure_references[1], pageNumber)
        ELSE <<>>,
     embedding |-> embedding]

\* TacticalTaskCreate(**task_data), main line 279: page_number must be a str
\* (name is a str after upper(), definition is a non-empty str here)
ValidatesAsTacticalTaskCreate(task_data) ==
    /\ IsStr(task_data.name)
    /\ IsStr(task_data.definition)
    /\ IsStr(task_data.page_number)

----------------------------------------------------------------------------
(* Knowledge Store *)

RowsByNameMisses(rows, name) == {}

\* get_tactical_task_by_name / filter_by(name=...).first(): the rows with that name
RowsByName(rows, name) == {r \in rows : r.name = name}

NewRow(id, task_data) ==
    [id |-> id,
     name |-> task_data.name,
     definition |-> task_data.definition,
     page_number |-> task_data.page_number,
     source_reference |-> task_data.source_reference,
     related_figures |-> task_data.related_figures,
     image_path |-> task_data.image_path,
     embedding |-> task_data.embedding]

UpsertAlwaysAdds(rows, id, task_data, commitOk) ==
    IF ~commitOk THEN rows ELSE rows \cup {NewRow(id, task_data)}

\* save_task_to_db, lines 215-238: the rows after the call.  A failed commit
\* is rolled back and the exception is swallowed.
Upsert(rows, id, task_data, commitOk) ==
    IF ~commitOk THEN rows
    ELSE LET existing == RowsByName(rows, task_data.name)
         IN  IF existing # {}
             THEN LET existing_task == CHOOSE r \in existing : TRUE
                  IN  (rows \ {existing_task})
                      \cup {NewRow(existing_task.id, task_data)}
             ELSE rows \cup {NewRow(id, task_data)}

----------------------------------------------------------------------------
(* Recognition Engine *)

\* A candidate of the recognition response
Entity(isDict, task_name, hasStart, start_index, hasEnd, end_index) ==
    [isDict |-> isDict, task_name |-> task_name,
     hasStart |-> hasStart, start_index |-> start_index,
     hasEnd |-> hasEnd, end_index |-> end_index]

RecognitionCandidates ==
    { Entity(TRUE, "SEIZE", TRUE, 18, TRUE, 23),
      Entity(TRUE, "seize", TRUE, 18, TRUE, 23),
      Entity(TRUE, "OCCUPY", TRUE, 44, TRUE, 50),
      Entity(TRUE, "SEIZE", TRUE, 60, FALSE, 0),      \* no end_index key
      Entity(TRUE, MISSING, TRUE, 18, TRUE, 23),      \* no task_name key
      Entity(TRUE, "", TRUE, 0, TRUE, 0),             \* "task_name": ""
      Entity(FALSE, MISSING, FALSE, 0, FALSE, 0)      \* an element that is no object
    }

\* lines 105-106: a dict that has the three keys
ValidEntity(entity) ==
    /\ entity.isDict
    /\ entity.task_name # MISSING
    /\ entity.hasStart
    /\ entity.hasEnd

\* TacticalTaskSchema.from_orm(row).model_dump(): the fields of the response
\* schema TacticalTask (schemas.py 77-111); embedding is not one of them
PublicFields(row) ==
    [id |-> row.id,
     name |-> row.name,
     definition |-> row.definition,
     page_number |-> row.page_number,
     source_reference |-> row.source_reference,
     image_path |-> row.image_path,
     related_figures |-> row.related_figures]

\* lines 120-125
Mention(entity, row) ==
    [task_name |-> entity.task_name,
     start_index |-> entity.start_index,
     end_index |-> entity.end_index,
     details |-> PublicFields(row)]

\* the name given to get_tactical_task_by_name, line 115: the name as the
\* generative capability wrote it
LookupKey(potential_task_name) == potential_task_name

RECURSIVE IdentifyLoopStopsAtUnknown(_, _, _, _, _)
IdentifyLoopStopsAtUnknown(rows, entities, enriched, lookups, failAt) ==
    IF entities = <<>> THEN [value |-> enriched, lookups |-> lookups]
    ELSE LET entity == Head(entities)
         IN  IF ~ValidEntity(entity)
             THEN IdentifyLoopStopsAtUnknown(rows, Tail(entities), enriched, lookups, failAt)
             ELSE IF Len(lookups) + 1 = failAt
             THEN [value |-> enriched, lookups |-> Append(lookups, entity.task_name)]
             ELSE LET found == RowsByName(rows, LookupKey(entity.task_name))
                      looked == Append(lookups, entity.task_name)
                  IN  IF found # {}
                      THEN IdentifyLoopStopsAtUnknown(rows, Tail(entities),
                               Append(enriched, Mention(entity, CHOOSE r \in found : TRUE)),
                               looked, failAt)
                      ELSE [value |-> enriched, lookups |-> looked]

\* lines 104-128; the failAt-th lookup raises (0: none does), which ends the
\* loop in the handler of line 134 with the mentions collected so far
RECURSIVE IdentifyLoop(_, _, _, _, _)
IdentifyLoop(rows, entities, enriched, lookups, failAt) ==
    IF entities = <<>> THEN [value |-> enriched, lookups |-> lookups]
    ELSE LET entity == Head(entities)
         IN  IF ~ValidEntity(entity)
             THEN IdentifyLoop(rows, Tail(entities), enriched, lookups, failAt)
             ELSE IF Len(lookups) + 1 = failAt
             THEN [value |-> enriched, lookups |-> Append(lookups, entity.task_name)]
             ELSE LET found == RowsByName(rows, LookupKey(entity.task_name))
                      looked == Append(lookups, entity.task_name)
                  IN  IF found # {}
                      THEN IdentifyLoop(rows, Tail(entities),
                               Append(enriched, Mention(entity, CHOOSE r \in found : TRUE)),
                               looked, failAt)
                      ELSE IdentifyLoop(rows, Tail(entities), enriched, looked, failAt)

Returned(value, lookups) == [raised |-> FALSE, value |-> value, lookups |-> lookups]

Raised == [raised |-> TRUE, value |-> <<>>, lookups |-> <<>>]

IdentifyLooksUpFirst(avail, resp, payload, rows, failAt) ==
    IF ~avail THEN Returned(<<>>, <<>>)
    ELSE IF resp.call \in {"raise_json", "raise_attr"} THEN Raised
    ELSE IF resp.call # "ok" \/ resp.text # "text" THEN Returned(<<>>, <<>>)
    ELSE LET loop == IdentifyLoop(rows, payload, <<>>, <<>>, failAt)
             kind == JsonLoads(CleanResponse(resp.tokens))
         IN  IF kind = "list" THEN Returned(loop.value, loop.lookups)
             ELSE Returned(<<>>, loop.lookups)

\* identify_and_retrieve_tactical_tasks, lines 36-137.  The handler of
\* JSONDecodeError (line 131) reads cleaned_response_text and the handler of
\* AttributeError (line 133) reads response: both are unbound when
\* generate_content itself raised that class, and the handler then raises
\* UnboundLocalError.
identify_and_retrieve_tactical_tasks(avail, resp, payload, rows, failAt) ==
    IF ~avail THEN Returned(<<>>, <<>>)
    ELSE IF resp.call \in {"raise_json", "raise_attr"} THEN Raised
    ELSE IF resp.call # "ok" THEN Returned(<<>>, <<>>)
    ELSE IF resp.text # "text" THEN Returned(<<>>, <<>>)
    ELSE LET kind == JsonLoads(CleanResponse(resp.tokens))
         IN  IF kind = "error" THEN Returned(<<>>, <<>>)
             ELSE IF kind = "nonlist" THEN Returned(<<>>, <<>>)
             ELSE LET loop == IdentifyLoop(rows, payload, <<>>, <<>>, failAt)
                  IN  Returned(loop.value, loop.lookups)

----------------------------------------------------------------------------
(* Initial values of the groups of variables *)

NoOutcome == [ok |-> FALSE, n |-> 0, seed |-> 0]

NoResponse == [call |-> "ok", text |-> "text", tokens |-> <<>>]

NoCall == [called |-> FALSE, avail |-> TRUE, resp |-> NoResponse,
           payload |-> <<>>, failAt |-> 0]

NoResult == [raised |-> FALSE, value |-> <<>>]

IngestIdle ==
    /\ store = {}
    /\ nextId = 1
    /\ pc = "loop"
    /\ pageIdx = start_pdf_page_index
    /\ majorError = FALSE
    /\ pageImages = [fails |-> FALSE, images |-> <<>>]
    /\ gemini_tasks = <<>>
    /\ processed = <<>>
    /\ tasks_on_page = <<>>
    /\ rawTasks = <<>>
    /\ savedLog = <<>>
    /\ embLog = <<>>
    /\ pagesPassed = 0

EmbedIdle ==
    /\ embCalls = 0
    /\ capCalls = 0
    /\ embInput = [text |-> "", out |-> NoOutcome]
    /\ embResult = <<>>

RecogIdle ==
    /\ recStore = {}
    /\ recInput = NoCall
    /\ recResult = NoResult
    /\ recLookups = <<>>
    /\ extInput = NoCall
    /\ extResult = NoResult

\* Python's None, where a column or an optional field holds no value
NoneValue == "<None>"

\* nothing was written
NOTHING == "<nothing>"

NoSearch == [called |-> FALSE, embedding |-> <<>>, limit |-> 0]

AdminIdle ==
    /\ lastOps = <<>>
    /\ searchCall = NoSearch
    /\ searchResult = NoResult

\* Values of column analysis_results: None, a list of mentions, or the
\* dictionary {"error": "Analysis failed", "details": ...}
NoResults == [kind |-> "none", value |-> <<>>]

Results(list) == [kind |-> "list", value |-> list]

ErrorMarker == [kind |-> "error", value |-> <<>>]

\* the run committed no value
NotStored == [kind |-> NOTHING, value |-> <<>>]

NoDocument ==
    [state |-> "absent", title |-> NoneValue, content |-> NoneValue,
     analysis_results |-> NoResults]

IdleRun ==
    [pc |-> "idle", found |-> FALSE, raisedOut |-> FALSE, content |-> NoneValue,
     recCalls |-> 0, recArg |-> NoneValue, returned |-> <<>>,
     recRaised |-> FALSE, commits |-> 0, failedCommits |-> 0, stored |-> NotStored]

NoDocOp ==
    [calls |-> 0, op |-> "none", status |-> 0, contentChanged |-> FALSE,
     content |-> NoneValue, hadAnnotations |-> FALSE, added |-> FALSE,
     byOwner |-> TRUE, respResults |-> NotStored, overlap |-> FALSE]

DocIdle ==
    /\ opord = NoDocument
    /\ scheduled = 0
    /\ orch = IdleRun
    /\ runLog = IdleRun
    /\ docLog = NoDocOp

NoRequest == [endpoint |-> "none", text |-> "", enhancement_type |-> "general",
              avail |-> TRUE, resp |-> NoResponse, payload |-> <<>>,
              reply |-> "none"]

NoAnswer ==
    [status |-> 0, mentions |-> <<>>, original_text |-> NoneValue,
     enhanced_text |-> NoneValue]

ApiIdle ==
    /\ apiCall = NoRequest
    /\ apiResult = NoAnswer

NoSession ==
    [pc |-> "idle", name |-> NoneValue, task_data |-> {}, existing |-> {},
     committed |-> FALSE, cause |-> "none", raised |-> FALSE]

NoLookup == [called |-> FALSE, name |-> NoneValue, found |-> {}, during |-> {}]

ConcIdle ==
    /\ sess = <<NoSession, NoSession>>
    /\ lookup = NoLookup
    /\ store0 = {}

----------------------------------------------------------------------------
(* The Embedding Generator on its own *)

EmbedTexts == {"d1", "d2"}

EmbedInit ==
    IngestIdle /\ EmbedIdle /\ RecogIdle /\ AdminIdle /\ DocIdle /\ ApiIdle
    /\ ConcIdle

GenerateEmbeddingCall ==
    /\ embCalls < MaxCalls
    /\ \E text \in EmbedTexts, out \in EmbedOutcomes :
          /\ embInput' = [text |-> text, out |-> out]
          /\ embResult' = generate_embedding(out)
          /\ capCalls' = capCalls + EmbedAttempts(out)
    /\ embCalls' = embCalls + 1
    /\ UNCHANGED <<ingestVars, recogVars, adminVars, docVars, apiVars,
                   concVars>>

EmbedNext == GenerateEmbeddingCall

SpecEmbed == EmbedInit /\ [][EmbedNext]_vars

\* C8: generate_embedding returns exactly target_dimension components for
\* every native length n: the native components up to position n (or up to
\* the target when n is larger), zeros after them.
C8_FixedDimension ==
    (embCalls > 0 /\ embInput.out.ok) =>
        /\ Len(embResult) = target_dimension
        /\ \A i \in 1..target_dimension :
              embResult[i] =
                 IF i <= embInput.out.n
                 THEN NativeVec(embInput.out.n, embInput.out.seed)[i]
                 ELSE 0

C8_Witness ==
    /\ embCalls > 0
    /\ embInput.out.ok
    /\ embInput.out.n = MaxSmall
    /\ Len(embResult) = target_dimension
    /\ embResult[target_dimension] = 0

----------------------------------------------------------------------------
(* The ingestion run: main, lines 258-291 *)

\* len(doc): the document ends MaxPages pages into the range
DocLen == start_pdf_page_index + MaxPages

IngestCandidates ==
    { Cand(TRUE, "seize", "d1", TRUE, <<>>, "B-11"),
      Cand(TRUE, "SEIZE", "d2", TRUE, <<"Figure B-1">>, "B-12"),
      Cand(TRUE, "OCCUPY", "d1", TRUE, <<>>, "B-11"),
      Cand(TRUE, NONSTR, "d1", TRUE, <<>>, "B-11"),
      Cand(TRUE, "OCCUPY", "d2", TRUE, <<>>, NONSTR),
      Cand(TRUE, "SEIZE", "", TRUE, <<>>, "B-11"),
      Cand(TRUE, "OCCUPY", "d2", FALSE, <<>>, "B-12") }

IngestShapes == { <<ARR>>, <<FENCE, TAG, WS, ARR, WS, FENCE>>, <<GARBAGE>>, <<OBJ>> }

IngestResponses ==
    FailedResponses \cup [call : {"ok"}, text : {"text"}, tokens : IngestShapes]

\* the candidate lists a response can carry: only an array payload has one
PayloadsOf(resp, pool) ==
    IF resp.call = "ok" /\ resp.text = "text" /\ ARR \in Range(resp.tokens)
    THEN SeqsUpTo(pool, MaxCands)
    ELSE {<<>>}

IngestEmbedOutcomes ==
    {o \in EmbedOutcomes :
        /\ o.seed = 0
        /\ (o.ok => o.n = MaxSmall)}

IngestInit ==
    IngestIdle /\ EmbedIdle /\ RecogIdle /\ AdminIdle /\ DocIdle /\ ApiIdle
    /\ ConcIdle

NoImages == [fails |-> FALSE, images |-> <<>>]

\* the for loop of main goes on to the next page
NextPage ==
    /\ pc' = "loop"
    /\ pageIdx' = pageIdx + 1
    /\ pageImages' = NoImages
    /\ gemini_tasks' = <<>>
    /\ processed' = <<>>
    /\ tasks_on_page' = <<>>

\* line 286: an exception left the for loop; main logs it and finishes
MajorError ==
    /\ pc' = "done"
    /\ majorError' = TRUE
    /\ pageIdx' = pageIdx
    /\ pageImages' = NoImages
    /\ gemini_tasks' = <<>>
    /\ processed' = <<>>
    /\ tasks_on_page' = <<>>

\* the loop of process_page or of main goes on to its next element
NextElement(tasks, done, toSave) ==
    /\ gemini_tasks' = tasks
    /\ processed' = done
    /\ tasks_on_page' = toSave
    /\ UNCHANGED <<pc, pageIdx, pageImages>>

InRange == pageIdx <= end_pdf_page_index /\ pageIdx < DocLen

\* lines 260-271 with process_page lines 170-173: a page without text
MainBlankPage ==
    /\ pc = "loop" /\ InRange
    /\ pagesPassed' = pagesPassed + 1
    /\ rawTasks' = <<>> /\ savedLog' = <<>> /\ embLog' = <<>>
    /\ NextPage
    /\ UNCHANGED <<store, nextId, majorError, embedVars, recogVars,
                   adminVars, docVars, apiVars, concVars>>

\* lines 260-271 with process_page lines 170-182: the page's text is sent
\* to the generative capability
MainTextPage ==
    /\ pc = "loop" /\ InRange
    /\ pagesPassed' = pagesPassed + 1
    /\ savedLog' = <<>> /\ embLog' = <<>>
    /\ \E resp \in IngestResponses :
         \E payload \in PayloadsOf(resp, IngestCandidates) :
            LET r == extract_tasks_with_gemini(resp, payload)
            IN  /\ rawTasks' = IF ParsedKind(resp) = "list" THEN payload ELSE <<>>
                /\ IF r.raised
                   THEN MajorError
                   ELSE IF r.value = <<>>
                   THEN NextPage /\ UNCHANGED majorError
                   ELSE /\ pc' = "process"
                        /\ gemini_tasks' = r.value
                        /\ processed' = <<>>
                        /\ \E images \in PageImageChoices : pageImages' = images
                        /\ UNCHANGED <<pageIdx, tasks_on_page, majorError>>
    /\ UNCHANGED <<store, nextId, embedVars, recogVars, adminVars, docVars, apiVars,
                   concVars>>

\* process_page returns processed_tasks_for_db to main, lines 213 and 273-284
ReturnFromProcessPage(result) ==
    IF result = <<>>
    THEN NextPage
    ELSE /\ pc' = "save"
         /\ tasks_on_page' = result
         /\ gemini_tasks' = <<>>
         /\ processed' = <<>>
         /\ pageImages' = NoImages
         /\ pageIdx' = pageIdx

\* process_page lines 184-211: one turn of the loop over gemini_tasks
ProcessTask ==
    /\ pc = "process" /\ gemini_tasks # <<>>
    /\ LET task_info == Head(gemini_tasks)
           rest == Tail(gemini_tasks)
       IN  IF Skipped(task_info)
           THEN /\ embLog' = embLog
                /\ IF rest = <<>>
                   THEN ReturnFromProcessPage(processed)
                   ELSE NextElement(rest, processed, tasks_on_page)
                /\ UNCHANGED majorError
           ELSE \E out \in IngestEmbedOutcomes :
                  LET embedding == generate_embedding(out)
                  IN  /\ embLog' = Append(embLog, [task |-> task_info, ok |-> out.ok])
                      /\ IF UpperRaises(task_info)
                         THEN MajorError
                         ELSE LET list == Append(processed,
                                            ProcessedTask(task_info, embedding,
                                                          pageImages, pageIdx))
                              IN  /\ IF rest = <<>>
                                     THEN ReturnFromProcessPage(list)
                                     ELSE NextElement(rest, list, tasks_on_page)
                                  /\ UNCHANGED majorError
    /\ UNCHANGED <<store, nextId, rawTasks, savedLog, pagesPassed,
                   embedVars, recogVars, adminVars, docVars, apiVars,
                   concVars>>

\* main lines 274-282: one turn of the loop over tasks_on_page (the embedding
\* made by process_page is always a list, so line 275 never skips)
SaveTask ==
    /\ pc = "save" /\ tasks_on_page # <<>>
    /\ LET task_data == Head(tasks_on_page)
           rest == Tail(tasks_on_page)
       IN  /\ IF ~ValidatesAsTacticalTaskCreate(task_data)
              THEN UNCHANGED <<store, nextId, savedLog>>
              ELSE \E commitOk \in BOOLEAN :
                     /\ store' = Upsert(store, nextId, task_data, commitOk)
                     /\ nextId' = IF commitOk /\ RowsByName(store, task_data.name) = {}
                                  THEN nextId + 1 ELSE nextId
                     /\ savedLog' = Append(savedLog, [payload |-> task_data,
                                                      committed |-> commitOk])
           /\ IF rest = <<>>
              THEN NextPage
              ELSE NextElement(gemini_tasks, processed, rest)
    /\ UNCHANGED <<majorError, rawTasks, embLog, pagesPassed, embedVars, recogVars,
                   adminVars, docVars, apiVars, concVars>>

\* lines 260-263 and 288-291: the range is exhausted or the document ended
MainFinish ==
    /\ pc = "loop" /\ ~InRange
    /\ pc' = "done"
    /\ UNCHANGED <<store, nextId, pageIdx, majorError, pageImages, gemini_tasks,
                   processed, tasks_on_page, rawTasks, savedLog, embLog,
                   pagesPassed, embedVars, recogVars, adminVars, docVars, apiVars,
                   concVars>>

IngestNext ==
    \/ MainBlankPage
    \/ MainTextPage
    \/ ProcessTask
    \/ SaveTask
    \/ MainFinish

SpecIngest == IngestInit /\ [][IngestNext]_vars

----------------------------------------------------------------------------
(* The ingestion of the last page of a run, from a store left by earlier pages *)

EarlierSeize ==
    ProcessedTask(Cand(TRUE, "seize", "d1", TRUE, <<>>, "B-11"),
                  generate_embedding([ok |-> TRUE, n |-> MaxSmall, seed |-> 0]),
                  NoImages, start_pdf_page_index)

EarlierOccupy ==
    ProcessedTask(Cand(TRUE, "OCCUPY", "d1", TRUE, <<>>, "B-11"),
                  generate_embedding(NoOutcome), NoImages, start_pdf_page_index)

UnitStores ==
    { {},
      Upsert({}, 1, EarlierSeize, TRUE),
      Upsert(Upsert({}, 1, EarlierOccupy, TRUE), 2, EarlierSeize, TRUE) }

UnitInit ==
    /\ store \in UnitStores
    /\ nextId = Cardinality(store) + 1
    /\ pc = "loop"
    /\ pageIdx = DocLen - 1
    /\ majorError = FALSE
    /\ pageImages = NoImages
    /\ gemini_tasks = <<>>
    /\ processed = <<>>
    /\ tasks_on_page = <<>>
    /\ rawTasks = <<>>
    /\ savedLog = <<>>
    /\ embLog = <<>>
    /\ pagesPassed = MaxPages - 1
    /\ EmbedIdle
    /\ RecogIdle
    /\ AdminIdle
    /\ DocIdle
    /\ ApiIdle
    /\ ConcIdle

SpecUnit == UnitInit /\ [][IngestNext]_vars

----------------------------------------------------------------------------
(* Claims about the ingestion *)

\* the page being processed has been dealt with: main is back at the top of
\* its loop or has finished
PageOver == pc \in {"loop", "done"}

\* a candidate with the four keys, whose name, definition and page label are
\* non-empty strings
WellFormed(c) ==
    /\ c.isDict /\ c.hasFigs
    /\ IsStr(c.name) /\ Truthy(c.name)
    /\ IsStr(c.definition) /\ Truthy(c.definition)
    /\ IsStr(c.document_page_number) /\ Truthy(c.document_page_number)

\* a candidate that has a name, a definition and a page label (non-empty
\* strings), whether or not it lists figure references
CarriesTheThree(c) ==
    /\ c.isDict
    /\ IsStr(c.name) /\ Truthy(c.name)
    /\ IsStr(c.definition) /\ Truthy(c.definition)
    /\ IsStr(c.document_page_number) /\ Truthy(c.document_page_number)

\* the record handed to save_task_to_db is the one made from candidate c
SavedFrom(c, e) ==
    /\ e.payload.name = Upper(c.name)
    /\ e.payload.definition = c.definition
    /\ e.payload.page_number = c.document_page_number
    /\ e.payload.related_figures = c.figure_references

\* C5: a failure while processing a candidate of one page does not keep the
\* later pages from being passed to process_page: a run that has finished
\* after a page whose response carried candidates has passed every page of
\* the range.
C5_LaterPagesProcessed ==
    (pc = "done" /\ rawTasks # <<>>) => pagesPassed = MaxPages

\* C6: a candidate is discarded exactly when it lacks a name, a definition or
\* a page label: once a page is over without an exception, the candidates of
\* its response handed to save_task_to_db are those that carry the three.
C6_DiscardedIffLacking ==
    (PageOver /\ ~majorError) =>
        \A i \in 1..Len(rawTasks) :
            CarriesTheThree(rawTasks[i]) <=>
                \E k \in 1..Len(savedLog) : SavedFrom(rawTasks[i], savedLog[k])

\* C9: a well-formed candidate whose embedding call failed is still handed to
\* save_task_to_db, with the zero vector as its embedding, by the time its
\* page is over.
C9_FailedEmbeddingStillUpserted ==
    PageOver =>
        \A i \in 1..Len(embLog) :
            (~embLog[i].ok /\ WellFormed(embLog[i].task)) =>
                \E k \in 1..Len(savedLog) :
                    /\ SavedFrom(embLog[i].task, savedLog[k])
                    /\ savedLog[k].payload.embedding = Zeros(target_dimension)

AllWellFormed(tasks) == \A i \in 1..Len(tasks) : WellFormed(tasks[i])

StoredFor(c) ==
    /\ Cardinality(RowsByName(store, Upper(c.name))) = 1
    /\ \A r \in RowsByName(store, Upper(c.name)) :
          /\ r.definition = c.definition
          /\ r.page_number = c.document_page_number
          /\ r.related_figures = c.figure_references
          /\ Len(r.embedding) = target_dimension

\* C7 as stated: after a page whose response is a list of well-formed
\* candidates has been ingested and every write was committed, the store
\* holds for every candidate exactly one record with its upper-cased name,
\* its definition, page label and figure references and an embedding of
\* target_dimension components.
C7_EveryCandidateStored ==
    (PageOver /\ rawTasks # <<>> /\ AllWellFormed(rawTasks)
        /\ \A k \in 1..Len(savedLog) : savedLog[k].committed) =>
        \A i \in 1..Len(rawTasks) : StoredFor(rawTasks[i])

\* C7 amended: the same for every candidate that no later candidate of the
\* response shares its upper-cased name with and whose write was committed.
C7_LastCandidateStored ==
    (PageOver /\ rawTasks # <<>> /\ AllWellFormed(rawTasks)) =>
        /\ Len(savedLog) = Len(rawTasks)
        /\ \A i \in 1..Len(rawTasks) :
              ( /\ savedLog[i].committed
                /\ \A j \in (i + 1)..Len(rawTasks) :
                      Upper(rawTasks[j].name) # Upper(rawTasks[i].name) )
              => StoredFor(rawTasks[i])

C7_Witness ==
    /\ PageOver /\ ~majorError
    /\ Len(rawTasks) = MaxCands
    /\ AllWellFormed(rawTasks)
    /\ rawTasks[1].name = "seize"
    /\ \A k \in 1..Len(savedLog) : savedLog[k].committed
    /\ \A i \in 1..Len(rawTasks) : StoredFor(rawTasks[i])
    /\ \E r \in store : r.name = "SEIZE" /\ r.embedding = Zeros(target_dimension)

\* C10: save_task_to_db whose commit succeeds inserts one record when no
\* record has the payload's name, and otherwise overwrites definition, page
\* label, figure references, image path and embedding of the one record with
\* that name, adding none; records with another name are never changed.
C10_UpsertEffect ==
    [][ (pc = "save" /\ Len(savedLog') = Len(savedLog) + 1) =>
          LET task_data == Head(tasks_on_page)
              committed == savedLog'[Len(savedLog')].committed
              before == RowsByName(store, task_data.name)
              after == RowsByName(store', task_data.name)
              Fields(r) == <<r.definition, r.page_number, r.related_figures,
                             r.image_path, r.embedding>>
          IN  /\ {r \in store' : r.name # task_data.name}
                    = {r \in store : r.name # task_data.name}
              /\ committed =>
                    /\ Cardinality(after) = 1
                    /\ \A r \in after : Fields(r) = Fields(task_data)
                    /\ before = {} => Cardinality(store') = Cardinality(store) + 1
                    /\ before # {} =>
                          /\ Cardinality(store') = Cardinality(store)
                          /\ {r.id : r \in after} = {r.id : r \in before}
              /\ ~committed => store' = store
      ]_vars

C10_Witness ==
    /\ savedLog # <<>>
    /\ savedLog[Len(savedLog)].committed
    /\ savedLog[Len(savedLog)].payload.name = "SEIZE"
    /\ savedLog[Len(savedLog)].payload.definition = "d2"
    /\ \E r \in store : r.id = 2 /\ r.name = "SEIZE" /\ r.definition = "d2"
    /\ \E r \in store : r.id = 1 /\ r.name = "OCCUPY" /\ r.definition = "d1"

----------------------------------------------------------------------------
(* Calls of the two engines against a given Knowledge Store *)

RecSeize == NewRow(1, EarlierSeize)

RecOccupy ==
    NewRow(2, ProcessedTask(Cand(TRUE, "OCCUPY", "d2", TRUE, <<"Figure B-1">>, "B-12"),
                            generate_embedding(NoOutcome),
                            [fails |-> FALSE, images |-> <<TRUE>>],
                            start_pdf_page_index))

RecStores == { {}, {RecSeize}, {RecOccupy}, {RecSeize, RecOccupy} }

RecogResponses == FailedResponses \cup TextResponses

RecogInit ==
    /\ IngestIdle
    /\ EmbedIdle
    /\ AdminIdle
    /\ DocIdle
    /\ ApiIdle
    /\ ConcIdle
    /\ recStore \in RecStores
    /\ recInput = NoCall
    /\ recResult = NoResult
    /\ recLookups = <<>>
    /\ extInput = NoCall
    /\ extResult = NoResult

\* one call of identify_and_retrieve_tactical_tasks (the engines keep no
\* state between calls: a behaviour follows one call)
IdentifyCall ==
    /\ ~recInput.called /\ ~extInput.called
    /\ \E avail \in BOOLEAN, resp \in RecogResponses, failAt \in 0..MaxCands :
         \E payload \in PayloadsOf(resp, RecognitionCandidates) :
            LET r == identify_and_retrieve_tactical_tasks(avail, resp, payload,
                                                          recStore, failAt)
            IN  /\ recInput' = [called |-> TRUE, avail |-> avail, resp |-> resp,
                                payload |-> payload, failAt |-> failAt]
                /\ recResult' = [raised |-> r.raised, value |-> r.value]
                /\ recLookups' = r.lookups
    /\ extInput' = NoCall
    /\ extResult' = NoResult
    /\ UNCHANGED <<recStore, ingestVars, embedVars, adminVars, docVars, apiVars,
                   concVars>>

\* one call of extract_tasks_with_gemini
ExtractCall ==
    /\ ~recInput.called /\ ~extInput.called
    /\ \E resp \in RecogResponses :
         \E payload \in PayloadsOf(resp, ExtractionCandidates) :
            /\ extInput' = [called |-> TRUE, avail |-> TRUE, resp |-> resp,
                            payload |-> payload, failAt |-> 0]
            /\ extResult' = extract_tasks_with_gemini(resp, payload)
    /\ recInput' = NoCall
    /\ recResult' = NoResult
    /\ recLookups' = <<>>
    /\ UNCHANGED <<recStore, ingestVars, embedVars, adminVars, docVars, apiVars,
                   concVars>>

RecogNext == IdentifyCall \/ ExtractCall

SpecRecog == RecogInit /\ [][RecogNext]_vars

----------------------------------------------------------------------------
(* Claims about the Recognition Engine *)

\* the call reached the loop over the candidates and no lookup raised
LoopCompleted ==
    /\ recInput.called /\ recInput.avail
    /\ ParsedKind(recInput.resp) = "list"
    /\ ~recResult.raised
    /\ (recInput.failAt = 0 \/ recInput.failAt > Len(recLookups))

\* C1: identify_and_retrieve_tactical_tasks never raises to its caller,
\* whatever fails: it always returns a list.
C1_NeverRaises == recInput.called => ~recResult.raised

\* positions of the candidates that carry the three keys and whose name is
\* the name of a stored record
Resolving ==
    {i \in 1..Len(recInput.payload) :
        LET e == recInput.payload[i]
        IN  /\ e.isDict /\ e.task_name # MISSING /\ e.hasStart /\ e.hasEnd
            /\ \E r \in recStore : r.name = e.task_name}

NthResolving(k) ==
    CHOOSE i \in Resolving : Cardinality({j \in Resolving : j < i}) = k - 1

PublicFieldNames ==
    {"id", "name", "definition", "page_number", "source_reference",
     "image_path", "related_figures"}

\* C2: when no lookup fails, the output is the subsequence of the candidates
\* that carry task_name, start_index and end_index and whose name is stored,
\* in the candidates' order, each with its own span and with the public
\* fields of the record of that name (no embedding) as details.
C2_ResolvedSubsequence ==
    LoopCompleted =>
        /\ Len(recResult.value) = Cardinality(Resolving)
        /\ \A k \in 1..Len(recResult.value) :
              LET m == recResult.value[k]
                  e == recInput.payload[NthResolving(k)]
              IN  /\ m.task_name = e.task_name
                  /\ m.start_index = e.start_index
                  /\ m.end_index = e.end_index
                  /\ DOMAIN m.details = PublicFieldNames
                  /\ \E r \in recStore :
                        /\ r.name = e.task_name
                        /\ \A f \in PublicFieldNames : m.details[f] = r[f]

C2_Witness ==
    /\ LoopCompleted
    /\ Len(recInput.payload) = MaxCands
    /\ recInput.payload[1].task_name = "seize"
    /\ Len(recResult.value) = 1
    /\ recResult.value[1].task_name = "OCCUPY"
    /\ recResult.value[1].start_index = 44
    /\ recResult.value[1].details.definition = "d2"

\* C3: the name of a candidate is upper-cased before the lookup: when no
\* lookup fails, every candidate with the three keys whose upper-cased name
\* is not empty and is the name of a stored record is emitted with its span.
C3_UpperCasedLookup ==
    LoopCompleted =>
        \A i \in 1..Len(recInput.payload) :
            LET e == recInput.payload[i]
            IN  ( /\ e.isDict /\ e.task_name # MISSING /\ e.hasStart /\ e.hasEnd
                  /\ Upper(e.task_name) # ""
                  /\ \E r \in recStore : r.name = Upper(e.task_name) )
                => \E k \in 1..Len(recResult.value) :
                      /\ recResult.value[k].start_index = e.start_index
                      /\ recResult.value[k].end_index = e.end_index
                      /\ recResult.value[k].details.name = Upper(e.task_name)

\* C4: a response that does not parse to a JSON list makes both engines
\* return the empty list without raising, and the Recognition Engine makes no
\* lookup in the Knowledge Store for it.
C4_UnparsableGivesEmpty ==
    /\ ( /\ recInput.called
         /\ recInput.resp.call = "ok" /\ recInput.resp.text = "text"
         /\ ParsedKind(recInput.resp) # "list" )
       => (~recResult.raised /\ recResult.value = <<>> /\ recLookups = <<>>)
    /\ ( /\ extInput.called
         /\ extInput.resp.call = "ok" /\ extInput.resp.text = "text"
         /\ ParsedKind(extInput.resp) # "list" )
       => (~extResult.raised /\ extResult.value = <<>>)

C4_Witness ==
    /\ recInput.called /\ recInput.avail
    /\ recInput.resp.call = "ok" /\ recInput.resp.text = "text"
    /\ recInput.resp.tokens = <<GARBAGE>>
    /\ recStore # {}
    /\ ~recResult.raised /\ recResult.value = <<>> /\ recLookups = <<>>

----------------------------------------------------------------------------
(* Writes to the Knowledge Store: the extraction upsert and the             *)
(* administrative endpoints of routers/tactical_task.py                     *)

\* None in the place of an embedding (the empty list, which is no vector, is
\* not among the embeddings of the model)
NoVector == <<>>

TaskFields ==
    {"name", "definition", "page_number", "source_reference", "image_path",
     "related_figures", "embedding"}

\* A request body validated as TacticalTaskCreate.  name, definition and
\* page_number are required; the bodies of the model set related_figures to
\* the empty list and leave source_reference and image_path to their defaults
\* ("FM 3-90", None); embedding is set when withEmbedding, and None by default.
\* fields_set is pydantic's record of the fields the body set.
AdminTask(name, definition, withEmbedding, embedding) ==
    [name |-> name, definition |-> definition, page_number |-> "B-11",
     source_reference |-> SOURCE_REFERENCE, image_path |-> <<>>,
     related_figures |-> <<>>,
     embedding |-> IF withEmbedding THEN embedding ELSE NoVector,
     fields_set |-> {"name", "definition", "page_number", "related_figures"}
                    \cup (IF withEmbedding THEN {"embedding"} ELSE {})]

\* task.model_dump(): every field, the unset ones with their defaults
ModelDump(task) == [f \in TaskFields |-> task[f]]

\* task.dict(exclude_unset=True): the fields the body sets
DictExcludeUnset(task) == task.fields_set

\* column embedding = Vector(1536): no value, or exactly 1536 components
FitsVectorColumn(embedding) ==
    embedding = NoVector \/ Len(embedding) = target_dimension

\* column name, unique=True: no two rows have the same name
UniqueIndexHolds(rows) ==
    \A r1 \in rows, r2 \in rows : r1.name = r2.name => r1.id = r2.id

\* what db.commit() does with the rows the session wants to write
Commits(rows, commitOk) ==
    /\ commitOk
    /\ UniqueIndexHolds(rows)
    /\ \A r \in rows : FitsVectorColumn(r.embedding)

\* POST /tactical-tasks/: the router's name check, then crud.create_tactical_task
CreateTacticalTask(rows, id, task, commitOk) ==
    IF RowsByName(rows, task.name) # {}
    THEN [status |-> 400, rows |-> rows]
    ELSE LET written == rows \cup {NewRow(id, ModelDump(task))}
         IN  IF Commits(written, commitOk)
             THEN [status |-> 200, rows |-> written]
             ELSE [status |-> 500, rows |-> rows]

UpdatedRow(db_task, task) ==
    [f \in TaskFields \cup {"id"} |->
        IF f \in DictExcludeUnset(task) THEN task[f] ELSE db_task[f]]

UpdateWithoutUniqueIndex(rows, task_id, task, commitOk) ==
    LET found == {r \in rows : r.id = task_id}
    IN  IF found = {} THEN [status |-> 404, rows |-> rows]
        ELSE LET db_task == CHOOSE r \in found : TRUE
                 written == (rows \ {db_task}) \cup {UpdatedRow(db_task, task)}
             IN  IF commitOk /\ \A r \in written : FitsVectorColumn(r.embedding)
                 THEN [status |-> 200, rows |-> written]
                 ELSE [status |-> 500, rows |-> rows]

\* PUT /tactical-tasks/{task_id}: crud.update_tactical_task sets the fields of
\* the body on the row and commits; a commit that fails raises out of the
\* endpoint and nothing is written
UpdateTacticalTask(rows, task_id, task, commitOk) ==
    LET found == {r \in rows : r.id = task_id}
    IN  IF found = {} THEN [status |-> 404, rows |-> rows]
        ELSE LET db_task == CHOOSE r \in found : TRUE
                 written == (rows \ {db_task}) \cup {UpdatedRow(db_task, task)}
             IN  IF Commits(written, commitOk)
                 THEN [status |-> 200, rows |-> written]
                 ELSE [status |-> 500, rows |-> rows]

\* DELETE /tactical-tasks/{task_id}
DeleteTacticalTask(rows, task_id, commitOk) ==
    LET found == {r \in rows : r.id = task_id}
    IN  IF found = {} THEN [status |-> 404, rows |-> rows]
        ELSE IF commitOk THEN [status |-> 200, rows |-> rows \ found]
        ELSE [status |-> 500, rows |-> rows]

LaterSeize ==
    ProcessedTask(Cand(TRUE, "SEIZE", "d2", TRUE, <<"Figure B-1">>, "B-12"),
                  generate_embedding(NoOutcome),
                  [fails |-> FALSE, images |-> <<TRUE>>], start_pdf_page_index)

\* records process_page hands to save_task_to_db
SavePayloads == {EarlierSeize, EarlierOccupy, LaterSeize}

\* request bodies of the administrative endpoints; the last one carries an
\* embedding of MaxSmall components
AdminPayloads ==
    { AdminTask("seize", "d1", FALSE, NoVector),
      AdminTask("SEIZE", "d2", TRUE,
                generate_embedding([ok |-> TRUE, n |-> MaxSmall, seed |-> 1])),
      AdminTask("OCCUPY", "d1", TRUE, NativeVec(MaxSmall, 0)) }

\* everything but the Knowledge Store is idle
OnlyStore ==
    /\ nextId = Cardinality(store) + 1
    /\ pc = "loop"
    /\ pageIdx = start_pdf_page_index
    /\ majorError = FALSE
    /\ pageImages = NoImages
    /\ gemini_tasks = <<>>
    /\ processed = <<>>
    /\ tasks_on_page = <<>>
    /\ rawTasks = <<>>
    /\ savedLog = <<>>
    /\ embLog = <<>>
    /\ pagesPassed = 0
    /\ EmbedIdle
    /\ RecogIdle
    /\ AdminIdle
    /\ DocIdle
    /\ ApiIdle

StoreInit ==
    /\ store \in UnitStores
    /\ OnlyStore
    /\ ConcIdle

OpsDone == IF lastOps = <<>> THEN 0 ELSE lastOps[Len(lastOps)].seq

\* lastOps keeps the last two writes
Logged(op, payload, task_id, committed, status, after) ==
    LET entry == [seq |-> OpsDone + 1, op |-> op, payload |-> payload,
                  task_id |-> task_id, committed |-> committed,
                  status |-> status, after |-> after]
    IN  IF lastOps = <<>> THEN <<entry>> ELSE <<lastOps[Len(lastOps)], entry>>

\* one call of save_task_to_db
SaveTaskToDb ==
    /\ OpsDone < MaxOps
    /\ \E task_data \in SavePayloads, commitOk \in BOOLEAN :
          /\ store' = Upsert(store, nextId, task_data, commitOk)
          /\ nextId' = IF commitOk /\ RowsByName(store, task_data.name) = {}
                       THEN nextId + 1 ELSE nextId
          /\ lastOps' = Logged("save", task_data, 0, commitOk, 0, store')
    /\ UNCHANGED <<pageVars, searchCall, searchResult,
                   embedVars, recogVars, docVars, apiVars, concVars>>

\* one request POST /tactical-tasks/
AdminCreate ==
    /\ OpsDone < MaxOps
    /\ \E task \in AdminPayloads, commitOk \in BOOLEAN :
          LET r == CreateTacticalTask(store, nextId, task, commitOk)
          IN  /\ store' = r.rows
              /\ nextId' = IF r.status = 200 THEN nextId + 1 ELSE nextId
              /\ lastOps' = Logged("create", task, 0, r.status = 200, r.status, store')
    /\ UNCHANGED <<pageVars, searchCall, searchResult,
                   embedVars, recogVars, docVars, apiVars, concVars>>

\* one request PUT /tactical-tasks/{task_id}
AdminUpdate ==
    /\ OpsDone < MaxOps
    /\ \E task_id \in 1..nextId, task \in AdminPayloads, commitOk \in BOOLEAN :
          LET r == UpdateTacticalTask(store, task_id, task, commitOk)
          IN  /\ store' = r.rows
              /\ lastOps' = Logged("update", task, task_id, r.status = 200,
                                   r.status, store')
    /\ UNCHANGED <<nextId, pageVars, searchCall, searchResult,
                   embedVars, recogVars, docVars, apiVars, concVars>>

\* one request DELETE /tactical-tasks/{task_id}
AdminDelete ==
    /\ OpsDone < MaxOps
    /\ \E task_id \in 1..nextId, commitOk \in BOOLEAN :
          LET r == DeleteTacticalTask(store, task_id, commitOk)
          IN  /\ store' = r.rows
              /\ lastOps' = Logged("delete", NoneValue, task_id, r.status = 200,
                                   r.status, store')
    /\ UNCHANGED <<nextId, pageVars, searchCall, searchResult,
                   embedVars, recogVars, docVars, apiVars, concVars>>

StoreNext == SaveTaskToDb \/ AdminCreate \/ AdminUpdate \/ AdminDelete

SpecStore == StoreInit /\ [][StoreNext]_vars

----------------------------------------------------------------------------
(* Claims about the writes to the Knowledge Store *)

\* the last two writes were calls of save_task_to_db with the same payload
SavedTwice ==
    /\ Len(lastOps) = 2
    /\ lastOps[1].op = "save" /\ lastOps[2].op = "save"
    /\ lastOps[1].payload = lastOps[2].payload

\* C11: save_task_to_db is idempotent: after two calls in a row with the same
\* payload the store is the store the first call left (same records, same
\* field values), whenever the first call was committed; when only the
\* second one was committed the store is the one a single committed call makes.
C11_UpsertIdempotent ==
    SavedTwice =>
        /\ lastOps[1].committed => store = lastOps[1].after
        /\ (~lastOps[1].committed /\ lastOps[2].committed) =>
              /\ Cardinality(RowsByName(store, lastOps[2].payload.name)) = 1
              /\ \A r \in RowsByName(store, lastOps[2].payload.name) :
                    /\ r.definition = lastOps[2].payload.definition
                    /\ r.page_number = lastOps[2].payload.page_number
                    /\ r.source_reference = lastOps[2].payload.source_reference
                    /\ r.related_figures = lastOps[2].payload.related_figures
                    /\ r.image_path = lastOps[2].payload.image_path
                    /\ r.embedding = lastOps[2].payload.embedding

C11_Witness ==
    /\ SavedTwice
    /\ lastOps[1].committed /\ lastOps[2].committed
    /\ lastOps[2].payload = LaterSeize
    /\ store = lastOps[1].after
    /\ \E r \in store : r.name = "SEIZE" /\ r.definition = "d2"

\* C12: in every reachable state of the Knowledge Store no two records have
\* the same name.
C12_NamesUnique ==
    \A r1 \in store, r2 \in store : r1.name = r2.name => r1 = r2

\* an update that would have given a second record the name of another one
C12_Witness ==
    /\ lastOps # <<>>
    /\ LET last == lastOps[Len(lastOps)]
       IN  /\ last.op = "update"
           /\ last.status = 500
           /\ \E r \in store : r.name = last.payload.name /\ r.id # last.task_id
           /\ \E r \in store : r.id = last.task_id
           /\ UpdateTacticalTask(store, last.task_id, last.payload, TRUE).status = 500
           /\ FitsVectorColumn(last.payload.embedding)
    /\ Cardinality(store) = 2

\* C13: every record of the Knowledge Store has a name equal to its own
\* upper-case form, whichever operation wrote it.
C13_NamesUpperCased == \A r \in store : r.name = Upper(r.name)

----------------------------------------------------------------------------
(* Similarity search: crud.search_similar_tasks                             *)

RECURSIVE SumProducts(_, _, _)
SumProducts(a, b, indices) ==
    IF indices = {} THEN 0
    ELSE LET i == CHOOSE j \in indices : TRUE
         IN  a[i] * b[i] + SumProducts(a, b, indices \ {i})

\* inner product of two vectors of the same length
Dot(a, b) == SumProducts(a, b, {i \in 1..Len(a) : a[i] # 0 /\ b[i] # 0})

\* How TacticalTask.embedding.cosine_distance(q) sorts in ascending order:
\* a number (class 0) before NaN (class 1, one of the vectors has norm 0)
\* before NULL (class 2, the row has no embedding)
DistanceClass(row, q) ==
    IF row.embedding = NoVector THEN 2
    ELSE IF Dot(row.embedding, row.embedding) = 0 \/ Dot(q, q) = 0 THEN 1
    ELSE 0

\* cosine similarity of a to q is greater than that of b to q (the norms of
\* a, b and q are positive): dot(a,q)/|a| > dot(b,q)/|b|, compared in integers
MoreSimilar(a, b, q) ==
    LET x == Dot(a, q)
        y == Dot(b, q)
        na == Dot(a, a)
        nb == Dot(b, b)
    IN  IF x >= 0 /\ y < 0 THEN TRUE
        ELSE IF x < 0 /\ y >= 0 THEN FALSE
        ELSE IF x >= 0 THEN x * x * nb > y * y * na
        ELSE x * x * nb < y * y * na

\* row r1 sorts strictly before row r2: its cosine distance to q is smaller
Closer(r1, r2, q) ==
    \/ DistanceClass(r1, q) < DistanceClass(r2, q)
    \/ /\ DistanceClass(r1, q) = 0
       /\ DistanceClass(r2, q) = 0
       /\ MoreSimilar(r1.embedding, r2.embedding, q)

Min(a, b) == IF a <= b THEN a ELSE b

\* the <=> operator of pgvector raises on vectors of different dimensions
DimensionsDiffer(rows, q) ==
    \E r \in rows : r.embedding # NoVector /\ Len(r.embedding) # Len(q)

SearchWithoutLimit(rows, embedding, limit) ==
    IF limit < 0 \/ DimensionsDiffer(rows, embedding)
    THEN {[raised |-> TRUE, value |-> <<>>]}
    ELSE LET m == Cardinality(rows)
         IN  { [raised |-> FALSE, value |-> s] :
                 s \in { t \in [1..m -> rows] :
                           /\ \A i \in 1..m, j \in 1..m : i # j => t[i] # t[j]
                           /\ \A i \in 1..m, j \in 1..m :
                                 i < j => ~Closer(t[j], t[i], embedding) } }

\* The outcomes of select(TacticalTask).order_by(cosine_distance(q)).limit(k).
\* ORDER BY names the distance alone, so rows at the same distance come in
\* whatever order the database produces: every such order is an outcome.
search_similar_tasks(rows, embedding, limit) ==
    IF limit < 0 \/ DimensionsDiffer(rows, embedding)
    THEN {[raised |-> TRUE, value |-> <<>>]}
    ELSE LET m == Min(limit, Cardinality(rows))
         IN  { [raised |-> FALSE, value |-> s] :
                 s \in { t \in [1..m -> rows] :
                           /\ \A i \in 1..m, j \in 1..m : i # j => t[i] # t[j]
                           /\ \A i \in 1..m, j \in 1..m :
                                 i < j => ~Closer(t[j], t[i], embedding)
                           /\ \A r \in rows :
                                 (\A i \in 1..m : t[i] # r) =>
                                     \A i \in 1..m : ~Closer(r, t[i], embedding) } }

SearchQueries ==
    { generate_embedding([ok |-> TRUE, n |-> MaxSmall, seed |-> 0]),
      generate_embedding([ok |-> TRUE, n |-> MaxSmall, seed |-> 1]),
      generate_embedding([ok |-> TRUE, n |-> 1, seed |-> 0]),
      generate_embedding(NoOutcome),
      NativeVec(MaxSmall, 0) }

\* stores left by earlier writes
TwoSeizeOccupy == Upsert(Upsert({}, 1, EarlierOccupy, TRUE), 2, EarlierSeize, TRUE)

WithLowerCase ==
    CreateTacticalTask(TwoSeizeOccupy, 3, AdminTask("seize", "d1", FALSE, NoVector),
                       TRUE).rows

SameDirection ==
    CreateTacticalTask(
        CreateTacticalTask(Upsert({}, 1, EarlierSeize, TRUE), 2,
            AdminTask("OCCUPY", "d1", TRUE,
                      generate_embedding([ok |-> TRUE, n |-> MaxSmall, seed |-> 0])),
            TRUE).rows,
        3,
        AdminTask("seize", "d2", TRUE,
                  generate_embedding([ok |-> TRUE, n |-> MaxSmall, seed |-> 1])),
        TRUE).rows

BothZero == Upsert(Upsert({}, 1, EarlierOccupy, TRUE), 2, LaterSeize, TRUE)

SearchStores ==
    { {}, Upsert({}, 1, EarlierSeize, TRUE), TwoSeizeOccupy, WithLowerCase,
      SameDirection, BothZero }

SearchInit ==
    /\ store \in SearchStores
    /\ OnlyStore
    /\ ConcIdle

\* one request POST /tactical-tasks/search/similar (a behaviour follows one)
SearchSimilar ==
    /\ ~searchCall.called
    /\ \E embedding \in SearchQueries, limit \in (-1)..MaxLimit :
          /\ searchCall' = [called |-> TRUE, embedding |-> embedding, limit |-> limit]
          /\ searchResult' \in search_similar_tasks(store, embedding, limit)
    /\ UNCHANGED <<store, nextId, lastOps, pageVars,
                   embedVars, recogVars, docVars, apiVars, concVars>>

SearchNext == SearchSimilar

SpecSearch == SearchInit /\ [][SearchNext]_vars

----------------------------------------------------------------------------
(* Claims about the similarity search *)

\* C14: search_similar_tasks(embedding, limit = k) that returns, returns
\* min(k, number of stored records) records: never more than k, each one a
\* record of the store, none twice; and it returns for every k >= 0 and
\* every query of target_dimension components.
C14_AtMostLimitFromStore ==
    searchCall.called =>
        /\ ~searchResult.raised =>
              LET value == searchResult.value
              IN  /\ Len(value) = Min(searchCall.limit, Cardinality(store))
                  /\ Len(value) <= searchCall.limit
                  /\ \A i \in 1..Len(value) : value[i] \in store
                  /\ \A i \in 1..Len(value), j \in 1..Len(value) :
                        i # j => value[i] # value[j]
        /\ searchResult.raised =>
              \/ searchCall.limit < 0
              \/ Len(searchCall.embedding) # target_dimension

C14_Witness ==
    /\ searchCall.called
    /\ ~searchResult.raised
    /\ searchCall.limit = 2
    /\ Cardinality(store) = 3
    /\ Len(searchResult.value) = 2
    /\ searchResult.value[1].name = "SEIZE"
    /\ searchResult.value[2].name = "OCCUPY"

\* C15: the records come in ascending order of cosine distance to the query,
\* and records at the same distance in the order of their insertion (the
\* order of their ids).
C15_AscendingThenInsertionOrder ==
    (searchCall.called /\ ~searchResult.raised) =>
        LET value == searchResult.value
            q == searchCall.embedding
        IN  \A i \in 1..Len(value), j \in 1..Len(value) :
                i < j =>
                    /\ ~Closer(value[j], value[i], q)
                    /\ ~Closer(value[i], value[j], q) => value[i].id < value[j].id

----------------------------------------------------------------------------
(* Documents: the endpoints of routers/opord.py and the Orchestrator         *)
(* run_tactical_analysis_and_store_results, for one document                 *)

WHITESPACE == "   "

ContentTexts == {"", WHITESPACE, "Seize the bridge."}

IsBlankOrWhitespace(content) == content \in {NoneValue, "", WHITESPACE}

\* `not db_opord.content`, line 37: the content is None or the empty string
\* (a content of spaces is truthy)
IsBlankContent(content) == content \in {NoneValue, ""}

\* what the Recognition Engine can do when the Orchestrator calls it
OrchRecognitions ==
    { LET r == identify_and_retrieve_tactical_tasks(TRUE, resp,
                   <<Entity(TRUE, "SEIZE", TRUE, 0, TRUE, 5)>>, {RecSeize}, 0)
      IN  [raised |-> r.raised, value |-> r.value] :
        resp \in { [call |-> "ok", text |-> "text", tokens |-> <<ARR>>],
                   [call |-> "ok", text |-> "text", tokens |-> <<GARBAGE>>],
                   [call |-> "raise_json", text |-> "text", tokens |-> <<>>] } }

\* background_tasks.add_task: the run is queued and starts after the response
AddTaskDropped(queued) == queued

AddTask(queued) == queued + 1

AnyUserAllowed(byOwner) == FALSE

\* `db_opord.user_id != current_user.id`
NotAuthorized(byOwner) == ~byOwner

TITLE == "Order 1"

RETITLED == "Order 2"

\* response_model=OPORD: title and content are strings and analysis_results
\* is None or a list of dictionaries; any other stored value fails the
\* validation of the response and the request is answered 500
ResponseAccepts(doc) ==
    /\ doc.title # NoneValue
    /\ doc.content # NoneValue
    /\ doc.analysis_results.kind \in {"none", "list"}

\* a request that changes the content while a run is between its read of the
\* document and its commit
Overlaps(changed) == docLog.overlap \/ (changed /\ orch.pc # "idle")

DocLogged(op, status, changed, content, added, byOwner, resp) ==
    [calls |-> docLog.calls + 1, op |-> op, status |-> status,
     contentChanged |-> changed, content |-> content,
     hadAnnotations |-> (opord.analysis_results.kind = "list"
                            /\ opord.analysis_results.value # <<>>),
     added |-> added, byOwner |-> byOwner, respResults |-> resp,
     overlap |-> Overlaps(changed)]

\* POST /opords/: crud.create_opord stores the body for the current user,
\* then the background run is added when the stored content is truthy
\* (router lines 32-38) and the stored document is the response.  The bodies
\* of the model leave analysis_results unset.
CreateOpord ==
    /\ docLog.calls < MaxRequests
    /\ opord.state = "absent"
    /\ \E content \in ContentTexts, commitOk \in BOOLEAN :
          IF commitOk
          THEN /\ opord' = [state |-> "present", title |-> TITLE,
                            content |-> content,
                            analysis_results |-> NoResults]
               /\ scheduled' = IF ~IsBlankContent(content)
                               THEN AddTask(scheduled) ELSE scheduled
               /\ docLog' = DocLogged("create", 200, TRUE, content,
                                      ~IsBlankContent(content), TRUE, NoResults)
          ELSE /\ docLog' = DocLogged("create", 400, FALSE, content, FALSE,
                                      TRUE, NotStored)
               /\ UNCHANGED <<opord, scheduled>>
    /\ UNCHANGED <<orch, runLog, ingestVars, embedVars, recogVars, adminVars, apiVars,
                   concVars>>

\* GET /opords/{opord_id}, router lines 41-53
GetOpord ==
    /\ docLog.calls < MaxRequests
    /\ \E byOwner \in BOOLEAN :
          docLog' =
              IF opord.state # "present"
              THEN DocLogged("get", 404, FALSE, opord.content, FALSE, byOwner, NotStored)
              ELSE IF NotAuthorized(byOwner)
              THEN DocLogged("get", 403, FALSE, opord.content, FALSE, byOwner, NotStored)
              ELSE IF ~ResponseAccepts(opord)
              THEN DocLogged("get", 500, FALSE, opord.content, FALSE, byOwner, NotStored)
              ELSE DocLogged("get", 200, FALSE, opord.content, FALSE, byOwner,
                             opord.analysis_results)
    /\ UNCHANGED <<opord, scheduled, orch, runLog, ingestVars, embedVars,
                   recogVars, adminVars, apiVars, concVars>>

\* PUT /opords/{opord_id}: crud.update_opord sets the fields of the body; the
\* background run is added when the body's content and the stored content
\* are both truthy (router lines 64-73), and runs once the response is
\* sent: a stored document the response model refuses is answered 500 and
\* the added run is dropped with the response.  The bodies of the model set
\* the title or leave it unset, set the content (to a text or to null) or
\* leave it unset, and never set analysis_results.
UpdateOpord ==
    /\ docLog.calls < MaxRequests
    /\ \E byOwner \in BOOLEAN, setsTitle \in BOOLEAN, setsContent \in BOOLEAN,
          content \in ContentTexts \cup {NoneValue}, commitOk \in BOOLEAN :
          IF opord.state # "present"
          THEN /\ docLog' = DocLogged("update", 404, FALSE, content, FALSE,
                                      byOwner, NotStored)
               /\ UNCHANGED <<opord, scheduled>>
          ELSE IF NotAuthorized(byOwner)
          THEN /\ docLog' = DocLogged("update", 403, FALSE, content, FALSE,
                                      byOwner, NotStored)
               /\ UNCHANGED <<opord, scheduled>>
          ELSE IF ~commitOk
          THEN /\ docLog' = DocLogged("update", 400, FALSE, content, FALSE,
                                      byOwner, NotStored)
               /\ UNCHANGED <<opord, scheduled>>
          ELSE LET stored == IF setsContent THEN content ELSE opord.content
                   bodyContent == IF setsContent THEN content ELSE NoneValue
                   adds == ~IsBlankContent(bodyContent) /\ ~IsBlankContent(stored)
                   doc == [opord EXCEPT
                              !.title = IF setsTitle THEN RETITLED ELSE @,
                              !.content = stored]
                   changed == setsContent /\ content # opord.content
               IN  /\ opord' = doc
                   /\ IF ResponseAccepts(doc)
                      THEN /\ scheduled' = IF adds THEN AddTask(scheduled) ELSE scheduled
                           /\ docLog' = DocLogged("update", 200, changed, stored,
                                                  adds, byOwner,
                                                  doc.analysis_results)
                      ELSE /\ scheduled' = scheduled
                           /\ docLog' = DocLogged("update", 500, changed, stored,
                                                  FALSE, byOwner, NotStored)
    /\ UNCHANGED <<orch, runLog, ingestVars, embedVars, recogVars, adminVars, apiVars,
                   concVars>>

\* DELETE /opords/{opord_id}: crud.delete_opord answers False for a missing
\* document and for a failed commit (404), raises 403 for another user
DeleteOpord ==
    /\ docLog.calls < MaxRequests
    /\ \E byOwner \in BOOLEAN, commitOk \in BOOLEAN :
          IF opord.state # "present"
          THEN /\ docLog' = DocLogged("delete", 404, FALSE, opord.content,
                                      FALSE, byOwner, NotStored)
               /\ UNCHANGED opord
          ELSE IF NotAuthorized(byOwner)
          THEN /\ docLog' = DocLogged("delete", 403, FALSE, opord.content,
                                      FALSE, byOwner, NotStored)
               /\ UNCHANGED opord
          ELSE IF ~commitOk
          THEN /\ docLog' = DocLogged("delete", 404, FALSE, opord.content,
                                      FALSE, byOwner, NotStored)
               /\ UNCHANGED opord
          ELSE /\ opord' = [opord EXCEPT !.state = "deleted"]
               /\ docLog' = DocLogged("delete", 200, FALSE, opord.content,
                                      FALSE, byOwner, NotStored)
    /\ UNCHANGED <<scheduled, orch, runLog, ingestVars, embedVars, recogVars,
                   adminVars, apiVars, concVars>>

\* db.commit() of the run: it fails on its own or because the row is gone
RunCommits(commitOk) == commitOk /\ opord.state = "present"

\* lines 30-38 and 48: the run starts; get_opord raises (outside any try),
\* finds no document, or the content decides the branch
RunStart ==
    /\ scheduled > 0
    /\ orch.pc = "idle"
    /\ scheduled' = scheduled - 1
    /\ \E fetchOk \in BOOLEAN :
          IF ~fetchOk
          THEN /\ runLog' = [IdleRun EXCEPT !.pc = "done", !.raisedOut = TRUE]
               /\ UNCHANGED orch
          ELSE IF opord.state # "present"
          THEN /\ runLog' = [IdleRun EXCEPT !.pc = "done"]
               /\ UNCHANGED orch
          ELSE /\ orch' = [IdleRun EXCEPT
                              !.pc = IF IsBlankContent(opord.content)
                                     THEN "blank" ELSE "recognize",
                              !.found = TRUE,
                              !.content = opord.content]
               /\ UNCHANGED runLog
    /\ UNCHANGED <<opord, docLog, ingestVars, embedVars, recogVars, adminVars, apiVars,
                   concVars>>

\* lines 39-46: the empty list is committed; a failure is logged
RunBlankCommit ==
    /\ orch.pc = "blank"
    /\ \E commitOk \in BOOLEAN :
          IF RunCommits(commitOk)
          THEN /\ opord' = [opord EXCEPT !.analysis_results = Results(<<>>)]
               /\ runLog' = [orch EXCEPT !.pc = "done", !.commits = 1,
                                         !.stored = Results(<<>>)]
          ELSE /\ runLog' = [orch EXCEPT !.pc = "done", !.commits = 1,
                                         !.failedCommits = 1]
               /\ UNCHANGED opord
    /\ orch' = IdleRun
    /\ UNCHANGED <<scheduled, docLog, ingestVars, embedVars, recogVars, adminVars, apiVars,
                   concVars>>

\* lines 50-53: the Recognition Engine is called with the content
RunRecognize ==
    /\ orch.pc = "recognize"
    /\ \E out \in OrchRecognitions :
          orch' = [orch EXCEPT !.recCalls = orch.recCalls + 1,
                               !.recArg = orch.content,
                               !.recRaised = out.raised,
                               !.returned = out.value,
                               !.pc = IF out.raised THEN "error" ELSE "store"]
    /\ UNCHANGED <<opord, scheduled, runLog, docLog, ingestVars, embedVars,
                   recogVars, adminVars, apiVars, concVars>>

\* lines 55-59: the returned list is committed; a failure goes to the handler
RunStoreCommit ==
    /\ orch.pc = "store"
    /\ \E commitOk \in BOOLEAN :
          IF RunCommits(commitOk)
          THEN /\ opord' = [opord EXCEPT !.analysis_results = Results(orch.returned)]
               /\ runLog' = [orch EXCEPT !.pc = "done",
                                         !.commits = orch.commits + 1,
                                         !.stored = Results(orch.returned)]
               /\ orch' = IdleRun
          ELSE /\ orch' = [orch EXCEPT !.pc = "error",
                                       !.commits = orch.commits + 1,
                                       !.failedCommits = orch.failedCommits + 1]
               /\ UNCHANGED <<opord, runLog>>
    /\ UNCHANGED <<scheduled, docLog, ingestVars, embedVars, recogVars, adminVars, apiVars,
                   concVars>>

\* lines 58-69: the handler rolls back and commits the error marker; a
\* failure of that commit is logged
RunErrorCommit ==
    /\ orch.pc = "error"
    /\ \E commitOk \in BOOLEAN :
          IF RunCommits(commitOk)
          THEN /\ opord' = [opord EXCEPT !.analysis_results = ErrorMarker]
               /\ runLog' = [orch EXCEPT !.pc = "done",
                                         !.commits = orch.commits + 1,
                                         !.stored = ErrorMarker]
          ELSE /\ runLog' = [orch EXCEPT !.pc = "done",
                                         !.commits = orch.commits + 1,
                                         !.failedCommits = orch.failedCommits + 1]
               /\ UNCHANGED opord
    /\ orch' = IdleRun
    /\ UNCHANGED <<scheduled, docLog, ingestVars, embedVars, recogVars, adminVars, apiVars,
                   concVars>>

OrchNext ==
    RunStart \/ RunBlankCommit \/ RunRecognize \/ RunStoreCommit \/ RunErrorCommit

DocInit ==
    IngestIdle /\ EmbedIdle /\ RecogIdle /\ AdminIdle /\ DocIdle /\ ApiIdle
    /\ ConcIdle

DocNext == CreateOpord \/ GetOpord \/ UpdateOpord \/ DeleteOpord \/ OrchNext

SpecDoc == DocInit /\ [][DocNext]_vars

\* a background run that was added is started, and a started run goes on
SpecDocFair == SpecDoc /\ WF_vars(OrchNext)

----------------------------------------------------------------------------
(* Claims about the Orchestrator *)

\* the last finished run found the document
RunFinished == runLog.pc = "done" /\ runLog.found

EmptiedWithAnnotations ==
    /\ docLog.op = "update"
    /\ docLog.status = 200
    /\ docLog.contentChanged
    /\ docLog.content = ""
    /\ docLog.hadAnnotations

\* C17: after a document that has annotations has its content updated to the
\* empty string, its analysis_results eventually become the empty list
\* (unless the document is deleted or given a content again).
C17_EmptiedContentClearsAnnotations ==
    [](EmptiedWithAnnotations =>
          <>( \/ opord.analysis_results = Results(<<>>)
              \/ opord.state # "present"
              \/ ~IsBlankContent(opord.content) ))

\* C18: when anything failed in a run on a document that is still there, the
\* run has committed the error marker; and no run lets an exception out.
C18_ErrorMarkerPersisted ==
    runLog.pc = "done" =>
        /\ ~runLog.raisedOut
        /\ ( /\ runLog.found
             /\ opord.state = "present"
             /\ (runLog.recRaised \/ runLog.failedCommits > 0) )
           => runLog.stored = ErrorMarker

\* C19: a run makes at most two commit attempts, and makes the second one
\* whenever the first failed.
C19_OneRetryAfterFailedWrite ==
    runLog.pc = "done" =>
        /\ runLog.commits <= 2
        /\ runLog.failedCommits >= 1 => runLog.commits = 2

\* C21: a create or update request that adds an Orchestrator run answers 200
\* with the analysis_results the document had before the run: in the step of
\* the request the run is only queued, no step of a run has happened and
\* analysis_results is unwritten; and no step of a run changes the recorded
\* outcome of a request.
C21_ResponseBeforeRun ==
    [][ /\ (docLog'.calls # docLog.calls /\ docLog'.added) =>
              /\ docLog'.status = 200
              /\ docLog'.respResults = IF docLog'.op = "create"
                                       THEN NoResults
                                       ELSE opord.analysis_results
              /\ opord'.analysis_results = docLog'.respResults
              /\ scheduled' = scheduled + 1
              /\ orch' = orch
              /\ runLog' = runLog
        /\ (orch' # orch \/ runLog' # runLog) => docLog' = docLog ]_vars

\* an update answered 200 with the list of the former content, whose run
\* then failed and left the error marker
C21_Witness ==
    /\ docLog.op = "update"
    /\ docLog.added
    /\ docLog.status = 200
    /\ docLog.respResults.kind = "list"
    /\ docLog.respResults.value # <<>>
    /\ runLog.pc = "done"
    /\ runLog.recRaised
    /\ opord.analysis_results = ErrorMarker
    /\ scheduled = 0

\* C27: in every reachable state the analysis_results of a document is None
\* or a list of mentions, a value the response model of the document accepts.
C27_AnnotationsAcceptedBySchema ==
    opord.state = "present" =>
        opord.analysis_results.kind \in {"none", "list"}

\* C28: a get, update or delete request by a user who is not the owner of an
\* existing document is answered 403, returns no document, leaves the
\* document unchanged and adds no run; a request for a document that does not
\* exist is answered 404 and changes nothing.
C28_OnlyOwnerAccess ==
    [][ (docLog'.calls # docLog.calls /\ docLog'.op \in {"get", "update", "delete"}) =>
           /\ (opord.state = "present" /\ ~docLog'.byOwner) =>
                 /\ docLog'.status = 403
                 /\ docLog'.respResults = NotStored
                 /\ ~docLog'.added
                 /\ opord' = opord
                 /\ scheduled' = scheduled
           /\ opord.state # "present" =>
                 /\ docLog'.status = 404
                 /\ ~docLog'.added
                 /\ opord' = opord
                 /\ scheduled' = scheduled ]_vars

\* another user's update of a document that holds annotations was refused
C28_Witness ==
    /\ docLog.op = "update"
    /\ ~docLog.byOwner
    /\ docLog.status = 403
    /\ docLog.content = "Seize the bridge."
    /\ opord.state = "present"
    /\ opord.content = ""
    /\ opord.analysis_results.kind = "list"

\* no run is queued or executing
Quiescent == opord.state = "present" /\ scheduled = 0 /\ orch.pc = "idle"

\* the last run found the document, and neither the recognition nor a commit
\* failed in it
LastRunClean ==
    /\ runLog.pc = "done"
    /\ runLog.found
    /\ ~runLog.raisedOut
    /\ ~runLog.recRaised
    /\ runLog.failedCommits = 0

\* C26: when no run overlapped a change of content, and every queued run has
\* finished, the last one without error, analysis_results is the empty list
\* for a blank content and otherwise what that run stored, the run having
\* read the content the document holds now.
C26_ResultsForCurrentContent ==
    (Quiescent /\ ~docLog.overlap /\ LastRunClean) =>
        IF IsBlankContent(opord.content)
        THEN opord.analysis_results = Results(<<>>)
        ELSE /\ runLog.content = opord.content
             /\ opord.analysis_results = runLog.stored

\* a run that overlapped a change of content wrote the results of the
\* content it had read
StaleAfterOverlap ==
    /\ Quiescent
    /\ docLog.overlap
    /\ LastRunClean
    /\ runLog.content # opord.content
    /\ opord.analysis_results = runLog.stored
    /\ runLog.stored.value # <<>>

----------------------------------------------------------------------------
(* Concurrent ingestion runs and lookups on the Knowledge Store: each       *)
(* save_task_to_db has its own database session; its query and its commit   *)
(* are separate statements, and a commit is atomic                          *)

Sessions == {1, 2}

\* the attributes save_task_to_db assigns to an existing record, lines 222-227
AssignedFields ==
    {"definition", "page_number", "source_reference", "related_figures",
     "image_path", "embedding"}

\* a record carries the fields of a payload
SameFields(row, task_data) ==
    /\ row.name = task_data.name
    /\ \A f \in AssignedFields : row[f] = task_data[f]

FlushedDefinitionOnly(current, loaded, task_data) ==
    [current EXCEPT !.definition = task_data.definition]

\* the UPDATE of the flush: the attributes whose assigned value differs from
\* the value the session loaded are written, the others are left as they are
FlushedRow(current, loaded, task_data) ==
    [f \in DOMAIN current |->
        IF f \in AssignedFields /\ task_data[f] # loaded[f]
        THEN task_data[f] ELSE current[f]]

InsertWithoutUniqueIndex(rows, id, task_data) ==
    [ok |-> TRUE, rows |-> rows \cup {NewRow(id, task_data)}]

\* the INSERT of the flush: the unique index on name refuses a second record
InsertRow(rows, id, task_data) ==
    IF RowsByName(rows, task_data.name) # {}
    THEN [ok |-> FALSE, rows |-> rows]
    ELSE [ok |-> TRUE, rows |-> rows \cup {NewRow(id, task_data)}]

\* db_session.commit(), line 234, for the record loaded or added by the session
SessionCommit(rows, id, task_data, existing, commitOk) ==
    IF ~commitOk THEN [ok |-> FALSE, cause |-> "commit", rows |-> rows]
    ELSE IF existing # {}
    THEN LET loaded == CHOOSE r \in existing : TRUE
             current == {r \in rows : r.id = loaded.id}
         IN  IF current = {}
             THEN [ok |-> FALSE, cause |-> "stale", rows |-> rows]
             ELSE LET cur == CHOOSE r \in current : TRUE
                  IN  [ok |-> TRUE, cause |-> "none",
                       rows |-> (rows \ {cur})
                                  \cup {FlushedRow(cur, loaded, task_data)}]
    ELSE LET ins == InsertRow(rows, id, task_data)
         IN  [ok |-> ins.ok,
              cause |-> IF ins.ok THEN "none" ELSE "unique",
              rows |-> ins.rows]

\* line 219: the session looks the name up; an error goes to the handler of
\* lines 236-238
SessionQuery(p) ==
    /\ sess[p].pc = "idle"
    /\ \E task_data \in SavePayloads, queryOk \in BOOLEAN :
          sess' = [sess EXCEPT ![p] =
                     IF queryOk
                     THEN [NoSession EXCEPT
                              !.pc = "queried",
                              !.name = task_data.name,
                              !.task_data = {task_data},
                              !.existing = RowsByName(store, task_data.name)]
                     ELSE [NoSession EXCEPT
                              !.pc = "done",
                              !.name = task_data.name,
                              !.task_data = {task_data},
                              !.cause = "query"]]
    /\ UNCHANGED <<ingestVars, embedVars, recogVars, adminVars, docVars, apiVars,
                   lookup, store0>>

\* lines 220-238: the assignments or the add, then the commit; a failure is
\* logged and rolled back, and nothing is raised
SessionSave(p) ==
    /\ sess[p].pc = "queried"
    /\ \E commitOk \in BOOLEAN :
          LET task_data == CHOOSE t \in sess[p].task_data : TRUE
              out == SessionCommit(store, nextId, task_data,
                                   sess[p].existing, commitOk)
          IN  /\ store' = out.rows
              /\ nextId' = IF Cardinality(out.rows) > Cardinality(store)
                           THEN nextId + 1 ELSE nextId
              /\ sess' = [sess EXCEPT ![p].pc = "done",
                                      ![p].committed = out.ok,
                                      ![p].cause = out.cause]
    /\ UNCHANGED <<pageVars, embedVars, recogVars, adminVars, docVars, apiVars,
                   lookup, store0>>

TaskNames == {"SEIZE", "OCCUPY"}

\* get_tactical_task_by_name, crud lines 19-20, from a session of its own
ConcurrentLookup ==
    /\ ~lookup.called
    /\ \E name \in TaskNames :
          lookup' = [called |-> TRUE, name |-> name,
                     found |-> RowsByName(store, name),
                     during |-> {p \in Sessions : /\ sess[p].pc = "queried"
                                                  /\ sess[p].name = name}]
    /\ UNCHANGED <<ingestVars, embedVars, recogVars, adminVars, docVars, apiVars,
                   sess, store0>>

ConcInit ==
    /\ store \in UnitStores
    /\ OnlyStore
    /\ sess = <<NoSession, NoSession>>
    /\ lookup = NoLookup
    /\ store0 = store

ConcNext ==
    \/ \E p \in Sessions : SessionQuery(p)
    \/ \E p \in Sessions : SessionSave(p)
    \/ ConcurrentLookup

SpecConc == ConcInit /\ [][ConcNext]_vars

----------------------------------------------------------------------------
(* Claims about concurrent use of the Knowledge Store *)

PayloadOf(p) == CHOOSE t \in sess[p].task_data : TRUE

BothDone == \A p \in Sessions : sess[p].pc = "done"

\* the two upserts one after the other, with the commit outcomes they had
OneAfterTheOther(first, second) ==
    LET n0 == Cardinality(store0) + 1
        r1 == Upsert(store0, n0, PayloadOf(first), sess[first].committed)
        n1 == IF Cardinality(r1) > Cardinality(store0) THEN n0 + 1 ELSE n0
    IN  Upsert(r1, n1, PayloadOf(second), sess[second].committed)

\* C22: when the two sessions upsert different names, the store they leave is
\* the store of the two upserts run one after the other; and a lookup that
\* runs at any point among them finds nothing, a record of the store before
\* the upserts, or a record carrying all the fields of the upsert's payload.
C22_UpsertsDoNotInterfere ==
    (\A p \in Sessions : sess[p].pc # "idle") /\ sess[1].name # sess[2].name =>
        /\ BothDone => store \in {OneAfterTheOther(1, 2), OneAfterTheOther(2, 1)}
        /\ lookup.called =>
              \A r \in lookup.found :
                  \/ r \in store0
                  \/ \E p \in Sessions : /\ sess[p].name = lookup.name
                                         /\ SameFields(r, PayloadOf(p))

\* both upserts were committed, one on an existing name and one on a new
\* name, and the lookup ran between the query and the commit of the upsert
\* of its name
C22_Witness ==
    /\ BothDone
    /\ sess[1].name # sess[2].name
    /\ \A p \in Sessions : sess[p].committed
    /\ Cardinality(store) > Cardinality(store0)
    /\ store0 # {}
    /\ lookup.called
    /\ lookup.during # {}
    /\ lookup.found # {}
    /\ lookup.found \cap store = {}

\* the two sessions saw no record of the name they both save
BothSawNone ==
    /\ BothDone
    /\ sess[1].name = sess[2].name
    /\ RowsByName(store0, sess[1].name) = {}
    /\ \A p \in Sessions : sess[p].cause # "query" /\ sess[p].existing = {}

\* C30: when both sessions saw no record of the name and both insert, the
\* store ends with at most one record of that name, exactly one unless both
\* commits failed for another reason; the record carries all the fields of
\* the payload of the session that committed, the other session rolled back,
\* and neither raised.
C30_OneRecordAfterInsertRace ==
    BothSawNone =>
        LET rows == RowsByName(store, sess[1].name)
        IN  /\ Cardinality(rows) <= 1
            /\ (\E p \in Sessions : sess[p].cause # "commit") => Cardinality(rows) = 1
            /\ \A r \in rows :
                  \E p \in Sessions : sess[p].committed /\ SameFields(r, PayloadOf(p))
            /\ Cardinality({p \in Sessions : sess[p].committed}) = Cardinality(rows)
            /\ \A p \in Sessions : ~sess[p].raised

\* the race happened: one insert was committed, the other was refused by the
\* unique index, with different payloads
C30_Witness ==
    /\ BothSawNone
    /\ \E p, q \in Sessions :
          /\ sess[p].committed
          /\ sess[q].cause = "unique"
          /\ PayloadOf(p) # PayloadOf(q)

----------------------------------------------------------------------------
(* The recognition endpoint and the enhancement endpoint *)

ENHANCED == "Seize the bridge by dawn."

PADDED == "  Seize the bridge by dawn.  "

\* str.strip() on the texts of the model
StripText(text) ==
    IF text \in {"", WHITESPACE} THEN ""
    ELSE IF text = PADDED THEN ENHANCED
    ELSE text

\* `not text or not text.strip()`
IsEmptyText(text) == text = "" \/ StripText(text) = ""

EnhancementType == {"general", "conciseness", "clarity", "impact"}

\* the parameters identify_and_retrieve_tactical_tasks declares
RecognitionParameters == {"db", "text"}

\* the keywords the recognition endpoint passes
AnalysisKeywords == {"db", "text", "known_task_names"}

get_all_tactical_task_names(rows) == {r.name : r \in rows}

HttpError(status) == [NoAnswer EXCEPT !.status = status]

\* POST /analysis/tasks
analyze_text_for_tactical_tasks(text, rows, avail, resp, payload) ==
    IF IsEmptyText(text) THEN HttpError(400)
    ELSE IF get_all_tactical_task_names(rows) = {}
    THEN HttpError(200)
    ELSE LET r == IF AnalysisKeywords \subseteq RecognitionParameters
                  THEN identify_and_retrieve_tactical_tasks(avail, resp,
                                                            payload, rows, 0)
                  ELSE Raised      \* TypeError: unexpected keyword argument
         IN  IF r.raised THEN HttpError(500)
             ELSE [NoAnswer EXCEPT !.status = 200, !.mentions = r.value]

\* what generate_content and response.text can do
EnhancerReplies == {"raise", "blocked", "", WHITESPACE, PADDED, ENHANCED}

AIEnhancementResponse(original_text, enhanced_text) ==
    [raised |-> FALSE, original_text |-> original_text,
     enhanced_text |-> enhanced_text]

EnhanceKeepsEmptySuggestion(text, model, reply) ==
    IF ~model \/ reply \in {"raise", "blocked"}
    THEN AIEnhancementResponse(text, text)
    ELSE AIEnhancementResponse(text, StripText(reply))

\* enhance_text_with_ai, lines 20-104: the model is missing, the call or the
\* reading of response.text raises (caught at line 101), the suggestion is
\* empty after strip(), or the suggestion is returned
enhance_text_with_ai(text, model, reply) ==
    IF ~model THEN AIEnhancementResponse(text, text)
    ELSE IF reply \in {"raise", "blocked"} THEN AIEnhancementResponse(text, text)
    ELSE IF StripText(reply) = "" THEN AIEnhancementResponse(text, text)
    ELSE AIEnhancementResponse(text, StripText(reply))

\* POST /ai/enhance_text
enhance_text_endpoint(text, model, reply) ==
    IF IsEmptyText(text) THEN HttpError(400)
    ELSE LET response == enhance_text_with_ai(text, model, reply)
         IN  IF response.raised THEN HttpError(500)
             ELSE [NoAnswer EXCEPT !.status = 200,
                                   !.original_text = response.original_text,
                                   !.enhanced_text = response.enhanced_text]

RequestTexts == {"", WHITESPACE, "Seize the bridge."}

ApiResponses ==
    { [call |-> "ok", text |-> "text", tokens |-> <<ARR>>],
      [call |-> "ok", text |-> "text", tokens |-> <<GARBAGE>>],
      [call |-> "raise_json", text |-> "text", tokens |-> <<>>] }

AnalyzeText ==
    /\ apiCall.endpoint = "none"
    /\ \E text \in RequestTexts, avail \in BOOLEAN, resp \in ApiResponses :
          LET payload == <<Entity(TRUE, "SEIZE", TRUE, 0, TRUE, 5)>>
          IN  /\ apiCall' = [endpoint |-> "analysis", text |-> text,
                             enhancement_type |-> "general", avail |-> avail,
                             resp |-> resp, payload |-> payload,
                             reply |-> "none"]
              /\ apiResult' = analyze_text_for_tactical_tasks(text, store,
                                                 avail, resp, payload)
    /\ UNCHANGED <<ingestVars, embedVars, recogVars, adminVars, docVars,
                   concVars>>

EnhanceText ==
    /\ apiCall.endpoint = "none"
    /\ \E text \in RequestTexts, type \in EnhancementType,
          model \in BOOLEAN, reply \in EnhancerReplies :
          /\ apiCall' = [endpoint |-> "enhance", text |-> text,
                         enhancement_type |-> type, avail |-> model,
                         resp |-> NoResponse, payload |-> <<>>,
                         reply |-> reply]
          /\ apiResult' = enhance_text_endpoint(text, model, reply)
    /\ UNCHANGED <<ingestVars, embedVars, recogVars, adminVars, docVars,
                   concVars>>

\* a call of enhance_text_with_ai itself, whatever the text of the request;
\* the status is 200 when it returned and 500 when it raised
EnhanceTextWithAi ==
    /\ apiCall.endpoint = "none"
    /\ \E text \in RequestTexts, type \in EnhancementType,
          model \in BOOLEAN, reply \in EnhancerReplies :
          LET response == enhance_text_with_ai(text, model, reply)
          IN  /\ apiCall' = [endpoint |-> "enhance_text_with_ai", text |-> text,
                             enhancement_type |-> type, avail |-> model,
                             resp |-> NoResponse, payload |-> <<>>,
                             reply |-> reply]
              /\ apiResult' = [NoAnswer EXCEPT
                                 !.status = IF response.raised THEN 500 ELSE 200,
                                 !.original_text = response.original_text,
                                 !.enhanced_text = response.enhanced_text]
    /\ UNCHANGED <<ingestVars, embedVars, recogVars, adminVars, docVars,
                   concVars>>

ApiInit ==
    /\ store \in UnitStores
    /\ OnlyStore
    /\ ConcIdle

ApiNext == AnalyzeText \/ EnhanceText \/ EnhanceTextWithAi

SpecApi == ApiInit /\ [][ApiNext]_vars

----------------------------------------------------------------------------
(* Claims about the two endpoints *)

\* C20: the recognition endpoint and the enhancement endpoint answer 400
\* exactly when the text is empty or whitespace-only, and answer every other
\* request with status 200, never with a server error.
C20_OnlyBlankTextRejected ==
    apiCall.endpoint \in {"analysis", "enhance"} =>
        /\ apiResult.status \in {200, 400}
        /\ apiResult.status = 400 <=> IsEmptyText(apiCall.text)

\* C29: enhance_text_with_ai never raises and answers with the text of the
\* request as original_text; when the model is missing, when the call or the
\* reading of its text fails, and when the suggestion is empty or
\* whitespace, enhanced_text is the text of the request; otherwise it is the
\* suggestion without its surrounding whitespace.
C29_EnhancerFallsBackToOriginal ==
    apiCall.endpoint = "enhance_text_with_ai" =>
        /\ apiResult.status = 200
        /\ apiResult.original_text = apiCall.text
        /\ ( \/ ~apiCall.avail
             \/ apiCall.reply \in {"raise", "blocked", "", WHITESPACE} )
           => apiResult.enhanced_text = apiCall.text
        /\ (apiCall.avail /\ apiCall.reply \in {PADDED, ENHANCED})
           => apiResult.enhanced_text = ENHANCED

\* the model answered with whitespace only and the text came back unchanged
C29_Witness ==
    /\ apiCall.endpoint = "enhance_text_with_ai"
    /\ apiCall.avail
    /\ apiCall.reply = WHITESPACE
    /\ apiCall.text = "Seize the bridge."
    /\ apiResult.enhanced_text = "Seize the bridge."
    /\ apiResult.original_text = "Seize the bridge."

----------------------------------------------------------------------------
(* The Knowledge Store shared by ingestion, the Recognition Engine and the  *)
(* Orchestrator                                                             *)

LookupsConsumeRows(rows, lookups) == {r \in rows : r.name \notin Range(lookups)}

\* the rows after the lookups of a recognition call: get_tactical_task_by_name
\* is a query, and the engine adds, changes and deletes nothing
StoreAfterLookups(rows, lookups) == rows

\* one call of save_task_to_db by an ingestion run
IngestionSave ==
    /\ \E task_data \in SavePayloads, commitOk \in BOOLEAN :
          /\ store' = Upsert(store, nextId, task_data, commitOk)
          /\ nextId' = IF commitOk /\ RowsByName(store, task_data.name) = {}
                       THEN nextId + 1 ELSE nextId
    /\ UNCHANGED <<pageVars, embedVars, recogVars, adminVars, docVars, apiVars,
                   concVars>>

\* one call of identify_and_retrieve_tactical_tasks on the shared store
RecognizeOnStore ==
    /\ ~recInput.called
    /\ \E avail \in BOOLEAN, resp \in ApiResponses, failAt \in 0..1 :
          LET payload == <<Entity(TRUE, "SEIZE", TRUE, 0, TRUE, 5)>>
              r == identify_and_retrieve_tactical_tasks(avail, resp, payload,
                                                        store, failAt)
          IN  /\ recInput' = [called |-> TRUE, avail |-> avail, resp |-> resp,
                              payload |-> payload, failAt |-> failAt]
              /\ recResult' = [raised |-> r.raised, value |-> r.value]
              /\ recLookups' = r.lookups
              /\ store' = StoreAfterLookups(store, r.lookups)
    /\ UNCHANGED <<nextId, pageVars, embedVars, recStore, extInput, extResult,
                   adminVars, docVars, apiVars, concVars>>

SharedInit ==
    /\ store \in UnitStores
    /\ OnlyStore
    /\ ConcIdle

SharedNext ==
    \/ IngestionSave
    \/ RecognizeOnStore
    \/ CreateOpord
    \/ RunStart
    \/ RunRecognize
    \/ RunStoreCommit
    \/ RunErrorCommit

SpecShared == SharedInit /\ [][SharedNext]_vars

----------------------------------------------------------------------------
(* Claims about the life cycle of the task records *)

StoredNames(rows) == {r.name : r \in rows}

\* C23: a call of the Recognition Engine and every step of an Orchestrator
\* run leave the Knowledge Store as it is, and no step of ingestion removes
\* a name from it.
C23_ReadOnlyAndNeverShrinks ==
    [][ /\ (recInput' # recInput \/ orch' # orch \/ runLog' # runLog) =>
              store' = store
        /\ StoredNames(store) \subseteq StoredNames(store') ]_vars

\* ingestion has added a record the Recognition Engine then looked up and
\* returned, and an Orchestrator run has stored its mentions
C23_Witness ==
    /\ Cardinality(store) = 2
    /\ nextId = 3
    /\ recInput.called
    /\ recLookups # <<>>
    /\ recResult.value # <<>>
    /\ runLog.pc = "done"
    /\ runLog.stored.kind = "list"
    /\ runLog.stored.value # <<>>

----------------------------------------------------------------------------
(* Fenced responses: the candidate list wrapped in a fenced code block      *)

OptionalWs == {<<>>, <<WS>>}

\* the array between an opening fence, with or without the json tag, and a
\* closing fence, with whitespace or none at each of the four places
FencedShapes ==
    { lead \o <<FENCE>> \o tag \o before \o <<ARR>> \o after \o <<FENCE>> \o trail :
        lead \in OptionalWs, tag \in {<<>>, <<TAG>>}, before \in OptionalWs,
        after \in OptionalWs, trail \in OptionalWs }

BareResponse == [call |-> "ok", text |-> "text", tokens |-> <<ARR>>]

FenceResponses ==
    {BareResponse} \cup [call : {"ok"}, text : {"text"}, tokens : FencedShapes]

\* one call of identify_and_retrieve_tactical_tasks on a bare or fenced response
IdentifyFenced ==
    /\ ~recInput.called /\ ~extInput.called
    /\ \E resp \in FenceResponses :
         \E payload \in SeqsUpTo(RecognitionCandidates, MaxCands) :
            LET r == identify_and_retrieve_tactical_tasks(TRUE, resp, payload,
                                                          recStore, 0)
            IN  /\ recInput' = [called |-> TRUE, avail |-> TRUE, resp |-> resp,
                                payload |-> payload, failAt |-> 0]
                /\ recResult' = [raised |-> r.raised, value |-> r.value]
                /\ recLookups' = r.lookups
    /\ UNCHANGED <<recStore, extInput, extResult, ingestVars, embedVars,
                   adminVars, docVars, apiVars, concVars>>

\* one call of extract_tasks_with_gemini on a bare or fenced response
ExtractFenced ==
    /\ ~recInput.called /\ ~extInput.called
    /\ \E resp \in FenceResponses :
         \E payload \in SeqsUpTo(ExtractionCandidates, MaxCands) :
            /\ extInput' = [called |-> TRUE, avail |-> TRUE, resp |-> resp,
                            payload |-> payload, failAt |-> 0]
            /\ extResult' = extract_tasks_with_gemini(resp, payload)
    /\ UNCHANGED <<recStore, recInput, recResult, recLookups, ingestVars,
                   embedVars, adminVars, docVars, apiVars, concVars>>

FenceNext == IdentifyFenced \/ ExtractFenced

SpecFence == RecogInit /\ [][FenceNext]_vars

----------------------------------------------------------------------------
(* Claims about fenced responses *)

\* C24: a fenced response gives, in the Recognition Engine and in the
\* Extraction Engine, the result the bare array gives for the same candidate
\* list; and the bare array reaches the parser as it is.
C24_FenceStrippingKeepsResult ==
    /\ recInput.called =>
          LET bare == identify_and_retrieve_tactical_tasks(TRUE, BareResponse,
                          recInput.payload, recStore, 0)
          IN  /\ recResult = [raised |-> bare.raised, value |-> bare.value]
              /\ recLookups = bare.lookups
    /\ extInput.called =>
          extResult = extract_tasks_with_gemini(BareResponse, extInput.payload)
    /\ \A call \in {recInput, extInput} :
          (call.called /\ call.resp = BareResponse) =>
              CleanResponse(call.resp.tokens) = call.resp.tokens

\* a response fenced with the json tag and whitespace at the four places
\* gave a mention
C24_Witness ==
    /\ recInput.called
    /\ recInput.resp.tokens = <<WS, FENCE, TAG, WS, ARR, WS, FENCE, WS>>
    /\ recResult.value # <<>>
    /\ ~recResult.raised

----------------------------------------------------------------------------
(* Claims about the images of the ingestion *)

\* the record process_page has just appended for the candidate at the head of
\* gemini_tasks has the image path the page's images give it
ImagePathAsListed ==
    (pc = "process" /\ Len(embLog') > Len(embLog) /\ ~majorError') =>
        LET task == Head(gemini_tasks)
            made == IF pc' = "save" THEN tasks_on_page' ELSE processed'
            rec == made[Len(made)]
            figs == task.figure_references
            found == {i \in 1..Len(pageImages.images) : pageImages.images[i]}
        IN  /\ rec.related_figures = figs
            /\ (figs = <<>> \/ pageImages.fails \/ found = {}) =>
                  rec.image_path = <<>>
            /\ (figs # <<>> /\ ~pageImages.fails /\ found # {}) =>
                  \E i \in found :
                      /\ \A j \in found : i <= j
                      /\ rec.image_path = <<figs[1], pageIdx, i - 1>>

\* when the page is over, every well-formed candidate that was processed has
\* been handed to save_task_to_db
ProcessedAreSaved ==
    (pc \notin {"loop", "done"} /\ pc' \in {"loop", "done"}) =>
        \A i \in 1..Len(embLog') :
            WellFormed(embLog'[i].task) =>
                \E k \in 1..Len(savedLog') : SavedFrom(embLog'[i].task, savedLog'[k])

\* C25: an image is looked for only for a candidate that lists a figure
\* reference, and the path of the first image found is the record's
\* image_path; without figure references, without images on the page or when
\* the extraction fails image_path is absent; and in each of these cases the
\* record is produced and handed to save_task_to_db.
C25_ImageOnlyForFigureReferences ==
    [][ImagePathAsListed /\ ProcessedAreSaved]_vars

====
